---- MODULE Spec2Model ----
(***************************************************************************)
(* A model of gen-changelog: the tag resolver (get_semver,                 *)
(* get_version_tags), the commit classifier (ConvCommit), the grouping of  *)
(* commits in a Section and the window walk of                             *)
(* ChangeLogBuilder::with_repository.                                      *)
(*                                                                         *)
(* Strings are sequences of one-character strings, so that the regular     *)
(* expressions of the program are matched character by character.         *)
(***************************************************************************)
EXTENDS Integers, Sequences, FiniteSets, TLC

VARIABLES
    repository,     \* the git repository: commits, HEAD, tags, remote
    config,         \* ChangeLogConfig: display_sections, release_pattern
    pc,             \* position in the operation being run
    self_owner,     \* ChangeLogBuilder.owner
    self_repo,      \* ChangeLogBuilder.repo
    version_tags,   \* the Vec<Tag> returned by get_version_tags
    section_limit,  \* with_repository's local section_limit (u8)
    section_count,  \* with_repository's local section_count
    tag_idx,        \* how many items peekable_tags has yielded
    revwalk,        \* the one git2::Revwalk of a with_repository call
    sections,       \* ChangeLogBuilder.sections
    links,          \* ChangeLogBuilder.links
    windows,        \* the WalkSetup and the commits yielded for each window walked
    summary,        \* input of ConvCommit::new
    cc,             \* the ConvCommit it returned
    bullet,         \* title_as_string of cc
    header,         \* ChangeLogBuilder.header
    documents,      \* the Markdown of each rendering of the built ChangeLog, in turn
    next_version,   \* the argument of update_unreleased_to_next_version, once called
    tag_builder,    \* a TagBuilder on its way through set_package and get_semver
    call,           \* the last call on the configuration: its name and its argument
    added,          \* the summaries given to add_commit on a section, in turn
    groups,         \* ChangeLogConfig.groups: the HashMap from names to groups
    mapping         \* the table groups_mapping returned, once called

vars == <<repository, config, pc, self_owner, self_repo, version_tags, section_limit, section_count,
          tag_idx, revwalk, sections, links, windows, summary, cc, bullet, header, documents,
          next_version, tag_builder, call, added, groups, mapping>>

----------------------------------------------------------------------------
(* Options and characters *)

None == [some |-> FALSE]
Some(x) == [some |-> TRUE, val |-> x]

\* No call on the configuration yet
NoCall == [op |-> "none", arg |-> None]

Digits == {"0", "1", "2", "3", "4", "5", "6", "7", "8", "9"}
LowerLetters == {"a", "b", "c", "d", "e", "f", "g", "h", "i", "j", "k", "l", "m",
                 "n", "o", "p", "q", "r", "s", "t", "u", "v", "w", "x", "y", "z"}
UpperLetters == {"A", "B", "C", "D", "E", "F", "G", "H", "I", "J", "K", "L", "M",
                 "N", "O", "P", "Q", "R", "S", "T", "U", "V", "W", "X", "Y", "Z"}
\* \w of the regex crate, on the ASCII characters the model uses
WordChars == Digits \cup LowerLetters \cup UpperLetters \cup {"_"}
\* \s
SpaceChars == {" ", "\t"}
\* [a-z\.A-Z0-9] of the pre-release group
PreChars == Digits \cup LowerLetters \cup UpperLetters \cup {"."}
\* [0-9A-Za-z-\.] of the build group
BuildChars == PreChars \cup {"-"}

\* The order of the characters (their code points), for string comparison.
CharOrder == <<" ", "!", "(", ")", "+", "-", ".", "/",
               "0", "1", "2", "3", "4", "5", "6", "7", "8", "9", ":",
               "A", "B", "C", "D", "E", "F", "G", "H", "I", "J", "K", "L", "M",
               "N", "O", "P", "Q", "R", "S", "T", "U", "V", "W", "X", "Y", "Z", "_",
               "a", "b", "c", "d", "e", "f", "g", "h", "i", "j", "k", "l", "m",
               "n", "o", "p", "q", "r", "s", "t", "u", "v", "w", "x", "y", "z">>
CharCode(c) == CHOOSE i \in 1..Len(CharOrder) : CharOrder[i] = c

DigitVal(c) == CharCode(c) - CharCode("0")

RECURSIVE NumVal(_)
\* the value of a run of decimal digits
NumVal(ds) ==
    IF ds = <<>> THEN 0
    ELSE 10 * NumVal(SubSeq(ds, 1, Len(ds) - 1)) + DigitVal(ds[Len(ds)])

RECURSIVE NumStr(_)
\* the decimal digits of a natural number (Display for u64)
NumStr(n) ==
    IF n < 10 THEN <<CharOrder[CharCode("0") + n]>>
    ELSE NumStr(n \div 10) \o <<CharOrder[CharCode("0") + (n % 10)]>>

AllIn(s, class) == \A i \in 1..Len(s) : s[i] \in class

\* The end of the longest run of characters of class starting at p (p-1: none).
RunEnd(s, p, class) ==
    IF p > Len(s) \/ s[p] \notin class THEN p - 1
    ELSE CHOOSE e \in p..Len(s) :
            /\ \A i \in p..e : s[i] \in class
            /\ (e = Len(s) \/ s[e + 1] \notin class)

\* -1, 0, 1: the order of two strings by code point (str::cmp)
RECURSIVE StrCmp(_, _)
StrCmp(a, b) ==
    IF a = <<>> /\ b = <<>> THEN 0
    ELSE IF a = <<>> THEN -1
    ELSE IF b = <<>> THEN 1
    ELSE IF CharCode(a[1]) < CharCode(b[1]) THEN -1
    ELSE IF CharCode(a[1]) > CharCode(b[1]) THEN 1
    ELSE StrCmp(Tail(a), Tail(b))

\* s.split(sep): the pieces of s between the separators (one piece if none)
RECURSIVE Split(_, _)
Split(s, sep) ==
    IF \A i \in 1..Len(s) : s[i] # sep THEN <<s>>
    ELSE LET k == CHOOSE i \in 1..Len(s) :
                      s[i] = sep /\ \A j \in 1..(i - 1) : s[j] # sep
         IN <<SubSeq(s, 1, k - 1)>> \o Split(SubSeq(s, k + 1, Len(s)), sep)

----------------------------------------------------------------------------
(* Tags: the PREFIX pattern, semver::Version and get_semver (tag.rs) *)

\* The least and the greatest member of a set of numbers that is not empty
SetMin(ns) == CHOOSE x \in ns : \A y \in ns : x <= y
SetMax(ns) == CHOOSE x \in ns : \A y \in ns : y <= x

\* The end of an optional group (mark class+) after position e, given the end r of
\* the run of class from e + 2: e when the group does not take part
OptionalEnd(s, e, mark, r) ==
    IF e + 1 <= Len(s) /\ s[e + 1] = mark /\ r >= e + 2 THEN r ELSE e

OptionalRun(s, e, mark, class) == OptionalEnd(s, e, mark, RunEnd(s, e + 2, class))

\* The version pattern from the patch on, e2 the end of the minor and e3 of the patch
SemverPatch(s, e2, e3) ==
    IF e3 < e2 + 2 THEN 0
    ELSE OptionalRun(s, OptionalRun(s, e3, "-", PreChars), "+", BuildChars)

\* .. from the minor on, e1 the end of the major and e2 of the minor
SemverMinor(s, e1, e2) ==
    IF e2 < e1 + 2 \/ e2 + 1 > Len(s) \/ s[e2 + 1] # "." THEN 0
    ELSE SemverPatch(s, e2, RunEnd(s, e2 + 2, Digits))

\* .. from the major on, e1 the end of the major that starts at p
SemverMajor(s, p, e1) ==
    IF e1 < p \/ e1 + 1 > Len(s) \/ s[e1 + 1] # "." THEN 0
    ELSE SemverMinor(s, e1, RunEnd(s, e1 + 2, Digits))

\* The end of the semver group when the version pattern
\*   \d+\.\d+\.\d+(-[a-z\.A-Z0-9]+)?(\+[0-9A-Za-z-\.]+)?
\* matches at p, 0 when it does not. Every repetition is greedy.
SemverEnd(s, p) == SemverMajor(s, p, RunEnd(s, p, Digits))

\* (?P<prefix>\w+) can be haystack[i..j] with the version pattern matching behind it
PrefixOk(haystack, i, j) ==
    /\ i <= j
    /\ \A k \in i..j : haystack[k] \in WordChars
    /\ SemverEnd(haystack, j + 1) > 0

\* The captures for a prefix haystack[i..j]
PrefixGroups(haystack, i, j) ==
    Some([prefix |-> SubSeq(haystack, i, j),
          semver |-> SubSeq(haystack, j + 1, SemverEnd(haystack, j + 1))])

\* The match that starts at i: the prefix as long as the rest of the pattern allows
PrefixAt(haystack, i) ==
    PrefixGroups(haystack, i, SetMax({j \in i..Len(haystack) : PrefixOk(haystack, i, j)}))

\* The match at the leftmost of the positions where one starts
PrefixAmong(haystack, starts) ==
    IF starts = {} THEN None ELSE PrefixAt(haystack, SetMin(starts))

\* PREFIX.captures(haystack): the leftmost match of (?P<prefix>\w+)(?P<semver>...),
\* the prefix as long as the rest of the pattern allows (leftmost-first, greedy).
\* The pattern is not anchored.
PREFIX_captures(haystack) ==
    PrefixAmong(haystack, {i \in 1..Len(haystack) :
                              \E j \in i..Len(haystack) : PrefixOk(haystack, i, j)})

\* A numeric identifier of semver: digits with no leading zero.
IsNumericId(ds) == ds # <<>> /\ AllIn(ds, Digits) /\ (Len(ds) > 1 => ds[1] # "0")

\* The identifiers of a pre-release or of build metadata are not empty; a numeric
\* pre-release identifier has no leading zero.
PreIdsOk(ids) ==
    \A k \in 1..Len(ids) : ids[k] # <<>> /\ (AllIn(ids[k], Digits) => IsNumericId(ids[k]))
PreOk(pre) == PreIdsOk(Split(pre, "."))
BuildIdsOk(ids) == \A k \in 1..Len(ids) : ids[k] # <<>>
BuildOk(build) == BuildIdsOk(Split(build, "."))

\* text has the mark of a pre-release or of build metadata after position e
HasMark(text, e, mark) == e + 1 <= Len(text) /\ text[e + 1] = mark

\* The end of the identifiers after the mark, e when there is no mark
MarkedEnd(text, e, mark) ==
    IF HasMark(text, e, mark) THEN RunEnd(text, e + 2, BuildChars) ELSE e

\* The identifiers between a mark after e and their end r
Marked(text, e, mark, r) == IF HasMark(text, e, mark) THEN SubSeq(text, e + 2, r) ELSE <<>>

\* The Version of a text whose parts end at e1 .. e5, None for what the crate rejects
ParseParts(text, e1, e2, e3, e4, e5) ==
    IF /\ e1 >= 1 /\ e1 + 1 <= Len(text) /\ text[e1 + 1] = "."
       /\ e2 >= e1 + 2 /\ e2 + 1 <= Len(text) /\ text[e2 + 1] = "."
       /\ e3 >= e2 + 2
       /\ IsNumericId(SubSeq(text, 1, e1))
       /\ IsNumericId(SubSeq(text, e1 + 2, e2))
       /\ IsNumericId(SubSeq(text, e2 + 2, e3))
       /\ (HasMark(text, e3, "-") => e4 >= e3 + 2 /\ PreOk(SubSeq(text, e3 + 2, e4)))
       /\ (HasMark(text, e4, "+") => e5 >= e4 + 2 /\ BuildOk(SubSeq(text, e4 + 2, e5)))
       /\ e5 = Len(text)
    THEN Some([major |-> NumVal(SubSeq(text, 1, e1)),
               minor |-> NumVal(SubSeq(text, e1 + 2, e2)),
               patch |-> NumVal(SubSeq(text, e2 + 2, e3)),
               pre |-> Marked(text, e3, "-", e4),
               build |-> Marked(text, e4, "+", e5)])
    ELSE None

ParseBuild(text, e1, e2, e3, e4) ==
    ParseParts(text, e1, e2, e3, e4, MarkedEnd(text, e4, "+"))
ParsePre(text, e1, e2, e3) == ParseBuild(text, e1, e2, e3, MarkedEnd(text, e3, "-"))
ParsePatch(text, e1, e2) == ParsePre(text, e1, e2, RunEnd(text, e2 + 2, Digits))
ParseMinor(text, e1) == ParsePatch(text, e1, RunEnd(text, e1 + 2, Digits))

\* semver::Version::parse: major.minor.patch, then -pre, then +build, and nothing
\* else; None for what the crate rejects. (A component beyond u64 is not modelled.)
Version_parse(text) == ParseMinor(text, RunEnd(text, 1, Digits))

\* Display for semver::Version
Version_to_string(v) ==
    NumStr(v.major) \o <<".">> \o NumStr(v.minor) \o <<".">> \o NumStr(v.patch)
      \o (IF v.pre = <<>> THEN <<>> ELSE <<"-">> \o v.pre)
      \o (IF v.build = <<>> THEN <<>> ELSE <<"+">> \o v.build)

IntCmp(a, b) == IF a < b THEN -1 ELSE IF a > b THEN 1 ELSE 0

\* Ordering::then: the first order unless it is Equal
Ordering_then(first, second) == IF first # 0 THEN first ELSE second

\* trim_start_matches('0')
RECURSIVE TrimZeros(_)
TrimZeros(ds) == IF ds # <<>> /\ ds[1] = "0" THEN TrimZeros(Tail(ds)) ELSE ds

\* Two numeric identifiers, ta and tb without their leading zeros: by value (the
\* longer is the greater, then by digits), then by length with the zeros
NumericCmp(a, b, ta, tb) ==
    Ordering_then(IntCmp(Len(ta), Len(tb)),
                  Ordering_then(StrCmp(ta, tb), IntCmp(Len(a), Len(b))))

\* The order of two identifiers: numeric ones by value, a numeric one below an
\* alphanumeric one, alphanumeric ones by code point.
IdCmp(a, b) ==
    IF AllIn(a, Digits) /\ AllIn(b, Digits)
    THEN NumericCmp(a, b, TrimZeros(a), TrimZeros(b))
    ELSE IF AllIn(a, Digits) THEN -1
    ELSE IF AllIn(b, Digits) THEN 1
    ELSE StrCmp(a, b)

RECURSIVE IdsCmp(_, _)
\* two lists of identifiers, one identifier at a time; a proper prefix is smaller
IdsCmp(as, bs) ==
    IF as = <<>> /\ bs = <<>> THEN 0
    ELSE IF as = <<>> THEN -1
    ELSE IF bs = <<>> THEN 1
    ELSE Ordering_then(IdCmp(as[1], bs[1]), IdsCmp(Tail(as), Tail(bs)))

\* Ord for semver::Prerelease: no pre-release is above any pre-release
PreCmp(a, b) ==
    IF a = <<>> /\ b = <<>> THEN 0
    ELSE IF a = <<>> THEN 1
    ELSE IF b = <<>> THEN -1
    ELSE IdsCmp(Split(a, "."), Split(b, "."))

\* Ord for semver::BuildMetadata
BuildCmp(a, b) == IdsCmp(Split(a, "."), Split(b, "."))

\* SemVer precedence: major, minor, patch, pre-release; build metadata is ignored
PrecedenceCmp(v, w) ==
    Ordering_then(IntCmp(v.major, w.major),
      Ordering_then(IntCmp(v.minor, w.minor),
        Ordering_then(IntCmp(v.patch, w.patch), PreCmp(v.pre, w.pre))))

\* Ord for semver::Version, the sort key of get_version_tags: precedence, then
\* build metadata (a total order)
Version_cmp(v, w) == Ordering_then(PrecedenceCmp(v, w), BuildCmp(v.build, w.build))

\* A set_semver that takes 0.0.0 for a text that Version::parse rejects
set_semver_lenient(tb, text) ==
    [tb EXCEPT !.semver =
        IF Version_parse(text).some THEN Version_parse(text)
        ELSE Some([major |-> 0, minor |-> 0, patch |-> 0, pre |-> <<>>, build |-> <<>>])]

\* TagBuilder::set_semver
set_semver(tb, text) == [tb EXCEPT !.semver = Version_parse(text)]

\* The Prefix arm of get_semver, with the captures of the tag's name
PrefixArm(tb, p, caps) ==
    IF ~caps.some THEN tb
    ELSE IF caps.val.prefix = p THEN set_semver(tb, caps.val.semver)
    ELSE tb

\* (?P<package>(([-_]?\w+)+)) can be haystack[i..k]: word characters and hyphens,
\* every hyphen with a word character behind it
PackageOk(haystack, i, k) ==
    /\ i <= k
    /\ \A m \in i..k : haystack[m] \in WordChars \cup {"-"}
    /\ \A m \in i..k : haystack[m] = "-" => m < k /\ haystack[m + 1] # "-"

\* .. with the hyphen, the prefix haystack[k + 2..j] and the version behind it
PackagePrefixOk(haystack, i, k, j) ==
    /\ PackageOk(haystack, i, k)
    /\ k + 1 <= Len(haystack)
    /\ haystack[k + 1] = "-"
    /\ PrefixOk(haystack, k + 2, j)

\* The captures for a package haystack[i..k] and a prefix haystack[k + 2..j]
PackageGroups(haystack, i, k, j) ==
    Some([package |-> SubSeq(haystack, i, k),
          prefix |-> SubSeq(haystack, k + 2, j),
          semver |-> SubSeq(haystack, j + 1, SemverEnd(haystack, j + 1))])

\* The match with the package haystack[i..k]: the prefix as long as the version
\* allows
PackageUpTo(haystack, i, k) ==
    PackageGroups(haystack, i, k,
                  SetMax({j \in (k + 2)..Len(haystack) : PackagePrefixOk(haystack, i, k, j)}))

\* The match that starts at i: the package as long as the rest of the pattern allows
PackageAt(haystack, i) ==
    PackageUpTo(haystack, i,
                SetMax({k \in i..Len(haystack) :
                           \E j \in (k + 2)..Len(haystack) :
                               PackagePrefixOk(haystack, i, k, j)}))

PackageAmong(haystack, starts) ==
    IF starts = {} THEN None ELSE PackageAt(haystack, SetMin(starts))

\* PACKAGE_PREFIX.captures(haystack): the leftmost match of
\*   (?P<package>(([-_]?\w+)+))-(?P<prefix>\w+)(?P<semver>...)
\* every repetition greedy. The pattern is not anchored.
PACKAGE_PREFIX_captures(haystack) ==
    PackageAmong(haystack, {i \in 1..Len(haystack) :
                               \E k \in i..Len(haystack), j \in i..Len(haystack) :
                                   PackagePrefixOk(haystack, i, k, j)})

\* TagBuilder::set_package
set_package(tb, package) == [tb EXCEPT !.package = Some(package)]

\* A PackagePrefix arm for which a builder with no package expects any package
PackagePrefixArm_any_package(tb, p, caps) ==
    IF ~caps.some THEN tb
    ELSE IF caps.val.prefix = p /\ (tb.package.some => caps.val.package = tb.package.val)
    THEN set_semver(tb, caps.val.semver)
    ELSE tb

\* The PackagePrefix arm of get_semver, with the captures of the tag's name
PackagePrefixArm(tb, p, caps) ==
    IF ~tb.package.some THEN tb
    ELSE IF ~caps.some THEN tb
    ELSE IF caps.val.prefix = p /\ caps.val.package = tb.package.val
    THEN set_semver(tb, caps.val.semver)
    ELSE tb

\* TagBuilder::get_semver
get_semver(tb, release_pattern) ==
    IF release_pattern.kind = "Prefix"
    THEN PrefixArm(tb, release_pattern.p, PREFIX_captures(tb.name))
    ELSE PackagePrefixArm(tb, release_pattern.p, PACKAGE_PREFIX_captures(tb.name))

\* Tag::builder(id, name, repo) ... .build(): a tag with no package, version or date
Tag_builder(id, name) ==
    [id |-> id, name |-> name, package |-> None, semver |-> None, date |-> None]

\* commit.time() in seconds: a commit's number is its place in time, a day apart
CommitTime(c) == c * 86400

\* TagBuilder::get_date: find_tag finds annotated tags only, and the tag has to
\* peel to a commit (id 0: it does not); the date is the time of that commit
get_date(tb, repo) ==
    IF tb.name \in repo.annotated /\ tb.id # 0
    THEN [tb EXCEPT !.date = Some(CommitTime(tb.id))]
    ELSE tb

is_version_tag(t) == t.semver.some
----------------------------------------------------------------------------
(* The commit classifier: CONVENTIONAL and ConvCommit (cc_commit.rs) *)

\* "." of the regex crate: any character but a line feed
NotNewline(s, i, j) == \A k \in i..j : s[k] # "\n"
\* \s: white space, the line feed included
IsSpace(c) == c \in SpaceChars \cup {"\n"}

\* (!)?: (.*)$$ with the "!" taking part (b) or not, q the position behind it
ConvTailAt(s, b, q) ==
    IF q + 1 <= Len(s) /\ s[q] = ":" /\ s[q + 1] = " " /\ NotNewline(s, q + 2, Len(s))
    THEN Some([breaking |-> b, description |-> SubSeq(s, q + 2, Len(s))])
    ELSE None

Breaking(s, r) == r <= Len(s) /\ s[r] = "!"

\* What follows the type and the scope, from position r:  (!)?: (.*)$$
\* The description runs to the end of the text and holds no line feed.
ConvTail(s, r) == ConvTailAt(s, Breaking(s, r), IF Breaking(s, r) THEN r + 1 ELSE r)

\* (.+\s)? can end at e: 0 when the group does not take part
EmojiOk(title, e) ==
    e = 0 \/ (e >= 2 /\ IsSpace(title[e]) /\ NotNewline(title, 1, e - 1))

\* The end of the type that starts behind e: [a-z]+ is greedy, and what follows it
\* in the pattern cannot start with a letter
TypeEnd(title, e) == RunEnd(title, e + 1, LowerLetters)

\* (?:\((.+)\))? can end at c behind a type that ends at t, with the rest of the
\* pattern matching behind it: c = 0 when the group does not take part
ScopeOk(title, t, c) ==
    IF c = 0 THEN ConvTail(title, t + 1).some
    ELSE /\ t + 1 <= Len(title) /\ title[t + 1] = "("
         /\ c >= t + 3 /\ title[c] = ")"
         /\ NotNewline(title, t + 2, c - 1)
         /\ ConvTail(title, c + 1).some

TypeOk(title, e, t, c) == t >= e + 1 /\ ScopeOk(title, t, c)

\* The whole text matches with the emoji ending at e and the scope closing at c
ConvOk(title, e, c) == EmojiOk(title, e) /\ TypeOk(title, e, TypeEnd(title, e), c)

\* The groups of the match with the emoji ending at e, the type at t, the scope
\* closing at c and the tail tl
ConvGroups(title, e, t, c, tl) ==
    Some([emoji |-> IF e = 0 THEN None ELSE Some(SubSeq(title, 1, e)),
          type |-> SubSeq(title, e + 1, t),
          scope |-> IF c = 0 THEN None ELSE Some(SubSeq(title, t + 2, c - 1)),
          breaking |-> tl.breaking,
          description |-> tl.description])

ConvScoped(title, e, t, c) ==
    ConvGroups(title, e, t, c, ConvTail(title, IF c = 0 THEN t + 1 ELSE c + 1).val)

\* The match with the emoji ending at e: the greatest c that lets the text match
ConvAt(title, e) ==
    ConvScoped(title, e, TypeEnd(title, e),
               SetMax({c \in 0..Len(title) : ConvOk(title, e, c)}))

\* The match with the greatest of the emoji ends that let the text match
ConvAmong(title, es) == IF es = {} THEN None ELSE ConvAt(title, SetMax(es))

\* CONVENTIONAL.captures(title):
\*   ^(?P<emoji>.+\s)?(?P<type>[a-z]+)(?:\((?P<scope>.+)\))?(?P<breaking>!)?: (?P<description>.*)$$
\* e is the last position of the emoji group (0: the group did not take part), c the
\* position of the ")" closing the scope (0: no scope). The regex crate prefers a
\* group that takes part to one that does not, and a longer ".+" to a shorter one:
\* the greatest e that lets the whole text match, then the greatest c.
CONVENTIONAL_captures(title) ==
    ConvAmong(title, {e \in 0..Len(title) : \E c \in 0..Len(title) : ConvOk(title, e, c)})

\* ConvCommit::default()
ConvCommit_default ==
    [title |-> <<>>, emoji |-> None, kind |-> None, scope |-> None,
     breaking |-> FALSE, body |-> <<>>]

\* The title alone whatever the captures
FromCaptures_title(title, captures) ==
    [title |-> title, emoji |-> None, kind |-> None, scope |-> None,
     breaking |-> FALSE, body |-> <<>>]

\* The two arms of ConvCommit::parse: the fields from the captures, or the title alone
FromCaptures(title, captures) ==
    IF captures.some
    THEN [title |-> captures.val.description,
          emoji |-> captures.val.emoji,
          kind |-> Some(captures.val.type),
          scope |-> captures.val.scope,
          breaking |-> captures.val.breaking,
          body |-> <<>>]
    ELSE [title |-> title, emoji |-> None, kind |-> None, scope |-> None,
          breaking |-> FALSE, body |-> <<>>]

\* ConvCommit::parse
parse(title) == FromCaptures(title, CONVENTIONAL_captures(title))

\* if let Some(body) = body { cmt_summary.body = body }
WithBody(c, body) == IF body.some THEN [c EXCEPT !.body = body.val] ELSE c

\* ConvCommit::new(title, body): title and body are Options
ConvCommit_new(title, body) ==
    WithBody(IF title.some THEN parse(title.val) ELSE ConvCommit_default, body)

unwrap_or_default(o) == IF o.some THEN o.val ELSE <<>>

\* ConvCommit::kind_string
kind_string(c) == unwrap_or_default(c.kind)

\* ConvCommit::title_as_string: format!("{}{}{}{}: {}", emoji, kind, (scope), !, title)
title_as_string(c) ==
    unwrap_or_default(c.emoji) \o unwrap_or_default(c.kind)
      \o (IF c.scope.some THEN <<"(">> \o c.scope.val \o <<")">> ELSE <<>>)
      \o (IF c.breaking THEN <<"!">> ELSE <<>>)
      \o <<":", " ">> \o c.title

----------------------------------------------------------------------------
(* The classes of a changelog (change_log_class.rs) *)

K_feat == <<"f", "e", "a", "t">>
K_fix == <<"f", "i", "x">>
K_refactor == <<"r", "e", "f", "a", "c", "t", "o", "r">>
K_security == <<"s", "e", "c", "u", "r", "i", "t", "y">>
K_dependency == <<"d", "e", "p", "e", "n", "d", "e", "n", "c", "y">>
K_build == <<"b", "u", "i", "l", "d">>
K_doc == <<"d", "o", "c">>
K_docs == <<"d", "o", "c", "s">>
K_chore == <<"c", "h", "o", "r", "e">>
K_ci == <<"c", "i">>
K_test == <<"t", "e", "s", "t">>
K_deprecated == <<"d", "e", "p", "r", "e", "c", "a", "t", "e", "d">>
K_removed == <<"r", "e", "m", "o", "v", "e", "d">>
K_misc == <<"m", "i", "s", "c">>

\* str::to_lowercase on the characters of the model
LowerOf(ch) ==
    IF ch \in UpperLetters THEN CharOrder[CharCode(ch) - CharCode("A") + CharCode("a")]
    ELSE ch
to_lowercase(s) == [i \in 1..Len(s) |-> LowerOf(s[i])]

\* ChangeLogClass::new
ChangeLogClass_new(kind) ==
    LET k == to_lowercase(kind)
    IN CASE k = K_feat -> "Added"
         [] k = K_fix -> "Fixed"
         [] k = K_refactor -> "Changed"
         [] k = K_security \/ k = K_dependency -> "Security"
         [] k = K_build -> "Build"
         [] k = K_doc \/ k = K_docs -> "Documentation"
         [] k = K_chore -> "Chore"
         [] k = K_ci -> "CI"
         [] k = K_test -> "Test"
         [] k = K_deprecated -> "Deprecated"
         [] k = K_removed -> "Removed"
         [] k = K_misc -> "Misc"
         [] OTHER -> "Unclassified"

\* Debug for ChangeLogClass: the name of the variant
ChangeLogClass_to_string_variant(class) == class

\* Display for ChangeLogClass
ChangeLogClass_to_string(class) ==
    CASE class = "Added" -> "Added"
      [] class = "Build" -> "Build Changes"
      [] class = "CI" -> "CI Changes"
      [] class = "Changed" -> "Changed"
      [] class = "Fixed" -> "Fixed"
      [] class = "Security" -> "Security Changes"
      [] class = "Documentation" -> "Documentation Changes"
      [] class = "Chore" -> "Chore Changes"
      [] class = "Test" -> "Test Changes"
      [] class = "Deprecated" -> "Deprecated"
      [] class = "Removed" -> "Removed"
      [] class = "Misc" -> "Miscellaneous"
      [] class = "Unclassified" -> "Unknown"
----------------------------------------------------------------------------
(* A Section and the grouping of its commits (section.rs) *)

\* Section::new(tag, headings): no commits in the map, the twelve lists empty
Section_new(tag, headings) ==
    [tag |-> tag,
     headings |-> headings,
     commits |-> <<>>,
     added_commits |-> <<>>, fixed_commits |-> <<>>, changed_commits |-> <<>>,
     security_commits |-> <<>>, build_commits |-> <<>>, test_commits |-> <<>>,
     documentation_commits |-> <<>>, chore_commits |-> <<>>, ci_commits |-> <<>>,
     deprecated_commits |-> <<>>, removed_commits |-> <<>>, misc_commits |-> <<>>]

\* The names of the lists of a Section
ClassLists == {"added_commits", "fixed_commits", "changed_commits", "security_commits",
               "build_commits", "test_commits", "documentation_commits",
               "chore_commits", "ci_commits", "deprecated_commits",
               "removed_commits", "misc_commits"}

\* Section::add_commit_to_hashmap: commits[class] gets the commit appended; the map
\* is a function from the keys present to the vectors
\* An add_commit_to_hashmap that puts the commit first in its group
add_commit_to_hashmap_first(section, class, commit) ==
    [section EXCEPT !.commits =
        [k \in DOMAIN section.commits \cup {class} |->
            IF k = class
            THEN <<commit>> \o (IF class \in DOMAIN section.commits
                                THEN section.commits[class] ELSE <<>>)
            ELSE section.commits[k]]]

add_commit_to_hashmap(section, class, commit) ==
    LET new_value == IF class \in DOMAIN section.commits
                     THEN section.commits[class] ELSE <<>>
    IN [section EXCEPT !.commits =
            [k \in DOMAIN section.commits \cup {class} |->
                IF k = class THEN Append(new_value, commit) ELSE section.commits[k]]]

\* The list add_commit pushes to for a class (its match on the class)
ListOfClass(class) ==
    CASE class = "Added" -> "added_commits"
      [] class = "Fixed" -> "fixed_commits"
      [] class = "Changed" -> "changed_commits"
      [] class = "Security" -> "security_commits"
      [] class = "Build" -> "build_commits"
      [] class = "Test" -> "test_commits"
      [] class = "Documentation" -> "documentation_commits"
      [] class = "Chore" -> "chore_commits"
      [] class = "CI" -> "ci_commits"
      [] class = "Deprecated" -> "deprecated_commits"
      [] class = "Removed" -> "removed_commits"
      [] class = "Misc" -> "misc_commits"
      [] class = "Unclassified" -> "misc_commits"

\* The end of add_commit: the commit goes into the map under the name of its
\* class and into the list of its class
PushCommit(section, class, commit) ==
    [add_commit_to_hashmap(section, ChangeLogClass_to_string(class), commit)
        EXCEPT ![ListOfClass(class)] = Append(@, commit)]

ClassifyCommit(section, conventional_commit) ==
    PushCommit(section, ChangeLogClass_new(kind_string(conventional_commit)),
               conventional_commit)

\* Section::add_commit(summary, message)
add_commit(section, title, message) ==
    ClassifyCommit(section, ConvCommit_new(title, message))

----------------------------------------------------------------------------
(* The remote (change_log.rs, REMOTE and get_remote_details) *)

S_https_github == <<"h", "t", "t", "p", "s", ":", "/", "/", "g", "i", "t", "h", "u", "b", ".", "c", "o", "m", "/">>
S_git_at_github == <<"g", "i", "t", "@", "g", "i", "t", "h", "u", "b">>
S_com_colon == <<"c", "o", "m", ":">>
S_dot_git == <<".", "g", "i", "t">>

AlnumChars == Digits \cup LowerLetters \cup UpperLetters

StartsWith(s, pre) == Len(s) >= Len(pre) /\ SubSeq(s, 1, Len(pre)) = pre

\* The length of the host part matched at the start of the URL, 0 when neither
\* alternative matches: (https://github\.com/)|(git@github.com:), where the dot of
\* the second alternative is not escaped and stands for any character.
RemoteHostLen(url) ==
    IF StartsWith(url, S_https_github) THEN Len(S_https_github)
    ELSE IF /\ StartsWith(url, S_git_at_github)
            /\ Len(url) >= Len(S_git_at_github) + 1 + Len(S_com_colon)
            /\ url[Len(S_git_at_github) + 1] # "\n"
            /\ SubSeq(url, Len(S_git_at_github) + 2,
                      Len(S_git_at_github) + 1 + Len(S_com_colon)) = S_com_colon
         THEN Len(S_git_at_github) + 1 + Len(S_com_colon)
    ELSE 0

\* owner: [a-zA-Z0-9](?:[a-zA-Z0-9-]{0,37}[a-zA-Z0-9])?
OwnerOk(o) ==
    /\ Len(o) >= 1 /\ Len(o) <= 39
    /\ o[1] \in AlnumChars /\ o[Len(o)] \in AlnumChars
    /\ AllIn(o, AlnumChars \cup {"-"})

\* repo: [a-zA-Z0-9_][a-zA-Z0-9_-]+[a-zA-Z0-9_]
RepoOk(r) ==
    /\ Len(r) >= 3
    /\ r[1] \in AlnumChars \cup {"_"} /\ r[Len(r)] \in AlnumChars \cup {"_"}
    /\ AllIn(r, AlnumChars \cup {"_", "-"})

\* The captures for a host of length h and the "/" at k
RemoteGroups(haystack, h, k) ==
    IF /\ OwnerOk(SubSeq(haystack, h + 1, k - 1))
       /\ k + 1 <= Len(haystack) - 4
       /\ RepoOk(SubSeq(haystack, k + 1, Len(haystack) - 4))
    THEN Some([owner |-> SubSeq(haystack, h + 1, k - 1),
               repo |-> SubSeq(haystack, k + 1, Len(haystack) - 4)])
    ELSE None

\* Neither owner nor repo holds a "/", so the first "/" behind the host parts them
RemoteParted(haystack, h, slashes) ==
    IF /\ h > 0 /\ Len(haystack) >= h + 4
       /\ SubSeq(haystack, Len(haystack) - 3, Len(haystack)) = S_dot_git
       /\ slashes # {}
    THEN RemoteGroups(haystack, h, SetMin(slashes))
    ELSE None

RemoteAfterHost(haystack, h) ==
    RemoteParted(haystack, h, {i \in (h + 1)..Len(haystack) : haystack[i] = "/"})

\* REMOTE.captures(haystack): host, owner, "/", repo, ".git", anchored at both ends
REMOTE_captures(haystack) == RemoteAfterHost(haystack, RemoteHostLen(haystack))

\* The result for the captures of the url
RemoteDetails(caps) ==
    IF ~caps.some THEN [ok |-> FALSE, err |-> "CapturesNotFound"]
    ELSE [ok |-> TRUE, owner |-> caps.val.owner, repo |-> caps.val.repo]

\* ChangeLogBuilder::get_remote_details: Ok with the owner and the repo, or an Err
\* (no remote.origin.url entry, or no captures)
get_remote_details(repo) ==
    IF ~repo.remote.some THEN [ok |-> FALSE, err |-> "Git2Error"]
    ELSE RemoteDetails(REMOTE_captures(repo.remote.val))

----------------------------------------------------------------------------
(* The release tags (change_log.rs, get_version_tags) *)

\* The closure of tag_foreach: one Tag for each tag of the repository, in the
\* order the repository gives them
BuildTags(repo, release_pattern) ==
    [i \in 1..Len(repo.tags) |->
        get_date(get_semver(Tag_builder(repo.tags[i].id, repo.tags[i].name),
                            release_pattern), repo)]

\* retain(|t| t.is_version_tag())
Retain(tags) == SelectSeq(tags, is_version_tag)

\* The key of a is less than the key of b
VersionLess(a, b) == Version_cmp(a.semver.val, b.semver.val) < 0

\* sort_by_key(|k| k.version()): a stable sort, ascending by Ord for Version
SortByVersion(tags) == SortSeq(tags, VersionLess)

\* The list as it is
Reverse_not(seq) == seq

Reverse(seq) == [k \in 1..Len(seq) |-> seq[Len(seq) + 1 - k]]

\* ChangeLogBuilder::get_version_tags
get_version_tags(repo, cfg) ==
    Reverse(SortByVersion(Retain(BuildTags(repo, cfg.release_pattern))))
----------------------------------------------------------------------------
(* The revwalk (git2::Revwalk as Section::walk_repository uses it) *)

U8Max == 255

\* `x as u8`
as_u8(x) == x % (U8Max + 1)

Min(a, b) == IF a <= b THEN a ELSE b

\* The commits reachable from a set of commits, the set included
RECURSIVE Reach(_, _)
Reach(repo, from) ==
    LET more == from \cup UNION {repo.parents[c] : c \in from}
    IN IF more = from THEN from ELSE Reach(repo, more)

\* repository.revwalk() followed by set_sorting(git2::Sort::TIME)
Revwalk_new == [pushed |-> {}, hidden |-> {}, sorting |-> "TIME"]

\* A walk with nothing pushed or hidden and no sorting
Revwalk_idle == [pushed |-> {}, hidden |-> {}, sorting |-> "NONE"]

\* A walk that keeps its pushes and hides when its iteration is over
Exhausted_keeps(rw) == rw

\* The walk when its iteration is over (for oid in revwalk.flatten() runs the
\* iterator to its end): the pushes, the hides and the sorting are dropped
Exhausted(rw) == Revwalk_idle

\* revwalk.push(oid)
push(rw, oid) == [rw EXCEPT !.pushed = @ \cup {oid}]

\* revwalk.push_head(), for a HEAD that names a commit
push_head(rw, repo) == push(rw, repo.head)

\* The commit a reference names
RefTarget(repo, reference) ==
    repo.tags[CHOOSE i \in 1..Len(repo.tags) : repo.tags[i].name = reference].id

\* revwalk.hide_ref(reference)
hide_ref(rw, repo, reference) ==
    [rw EXCEPT !.hidden = @ \cup {RefTarget(repo, reference)}]

\* The commits of a set, newest first (a commit's number is its place in time)
RECURSIVE NewestFirst(_)
NewestFirst(cs) ==
    IF cs = {} THEN <<>>
    ELSE LET m == CHOOSE c \in cs : \A d \in cs : d <= c
         IN <<m>> \o NewestFirst(cs \ {m})

\* The oids the iteration of the walk yields: what is reachable from the pushed
\* commits and from none of the hidden ones
Yielded(rw, repo) == NewestFirst(Reach(repo, rw.pushed) \ Reach(repo, rw.hidden))

\* Section::get_commits, for the oids that the walk yields: add_commit for each
\* commit that has a summary
AddIfSummary(section, summary_option) ==
    IF summary_option.some THEN add_commit(section, summary_option, None) ELSE section

RECURSIVE AddCommits(_, _, _)
AddCommits(section, repo, oids) ==
    IF oids = <<>> THEN section
    ELSE AddCommits(AddIfSummary(section, repo.summary[Head(oids)]), repo, Tail(oids))

get_commits(section, rw, repo) == AddCommits(section, repo, Yielded(rw, repo))

\* The WalkSetup values
NoReleases == [kind |-> "NoReleases"]
HeadToRelease(tag) == [kind |-> "HeadToRelease", tag |-> tag]
FromReleaseToRelease(tag, next_tag) ==
    [kind |-> "FromReleaseToRelease", tag |-> tag, next_tag |-> next_tag]
ReleaseToStart(tag) == [kind |-> "ReleaseToStart", tag |-> tag]

\* The pushes and hides that Section::walk_repository makes for a setup
SetUpWalk(setup, rw, repo) ==
    CASE setup.kind = "NoReleases" -> push_head(rw, repo)
      [] setup.kind = "HeadToRelease" ->
            hide_ref(push_head(rw, repo), repo, setup.tag.name)
      [] setup.kind = "FromReleaseToRelease" ->
            hide_ref(push(rw, setup.tag.id), repo, setup.next_tag.name)
      [] setup.kind = "ReleaseToStart" -> push(rw, setup.tag.id)

\* The ? of walk_repository: push_head fails when HEAD names no commit, push and
\* hide_ref fail when the tag names an object that is no commit (id 0: a tree or a
\* blob, "object is not a committish")
WalkFails(setup, repo) ==
    \/ setup.kind \in {"NoReleases", "HeadToRelease"} /\ repo.head = 0
    \/ setup.kind \in {"HeadToRelease", "FromReleaseToRelease", "ReleaseToStart"}
          /\ setup.tag.id = 0
    \/ setup.kind = "FromReleaseToRelease" /\ setup.next_tag.id = 0

\* Section::walk_repository: the section with the commits of the window
walk_repository(section, setup, repo, rw) ==
    get_commits(section, SetUpWalk(setup, rw, repo), repo)

----------------------------------------------------------------------------
(* The links (change_log.rs, set_link) *)

S_Unreleased == <<"U", "n", "r", "e", "l", "e", "a", "s", "e", "d">>
S_commits_main == <<"/", "c", "o", "m", "m", "i", "t", "s", "/", "m", "a", "i", "n", "/">>
S_compare_v == <<"/", "c", "o", "m", "p", "a", "r", "e", "/", "v">>
S_dots_HEAD == <<".", ".", ".", "H", "E", "A", "D">>
S_dots_v == <<".", ".", ".", "v">>
S_releases_tag_v == <<"/", "r", "e", "l", "e", "a", "s", "e", "s", "/", "t", "a", "g", "/", "v">>

Link_new(anchor, url) == [anchor |-> anchor, url |-> url]

\* The version of a tag as set_link prints it
TagVersion(tag) == Version_to_string(tag.semver.val)

\* set_link with the two versions of FromReleaseToRelease taken the other way round
LinkOf_swapped(setup, base) ==
    CASE setup.kind = "NoReleases" ->
            Link_new(S_Unreleased, base \o S_commits_main)
      [] setup.kind = "HeadToRelease" ->
            Link_new(S_Unreleased,
                     base \o S_compare_v \o TagVersion(setup.tag) \o S_dots_HEAD)
      [] setup.kind = "FromReleaseToRelease" ->
            Link_new(TagVersion(setup.tag),
                     base \o S_compare_v \o TagVersion(setup.tag)
                          \o S_dots_v \o TagVersion(setup.next_tag))
      [] setup.kind = "ReleaseToStart" ->
            Link_new(TagVersion(setup.tag),
                     base \o S_releases_tag_v \o TagVersion(setup.tag))

\* The Link for a setup, base being https://github.com/{owner}/{repo}
LinkOf(setup, base) ==
    CASE setup.kind = "NoReleases" ->
            Link_new(S_Unreleased, base \o S_commits_main)
      [] setup.kind = "HeadToRelease" ->
            Link_new(S_Unreleased,
                     base \o S_compare_v \o TagVersion(setup.tag) \o S_dots_HEAD)
      [] setup.kind = "FromReleaseToRelease" ->
            Link_new(TagVersion(setup.tag),
                     base \o S_compare_v \o TagVersion(setup.next_tag)
                          \o S_dots_v \o TagVersion(setup.tag))
      [] setup.kind = "ReleaseToStart" ->
            Link_new(TagVersion(setup.tag),
                     base \o S_releases_tag_v \o TagVersion(setup.tag))

\* The Link that set_link pushes for a setup
set_link(setup, owner, repo) == LinkOf(setup, S_https_github \o owner \o <<"/">> \o repo)

\* let section_limit = match self.config.display_sections() { .. }
SectionLimit(display_sections, len) ==
    CASE display_sections.kind = "All" -> Min(as_u8(len + 1), U8Max)
      [] display_sections.kind = "One" -> 1
      [] display_sections.kind = "Custom" -> Min(as_u8(len + 1), display_sections.n)
----------------------------------------------------------------------------
(* The header (header.rs) *)

DEFAULT_TITLE == <<"C", "h", "a", "n", "g", "e", "l", "o", "g">>
DEFAULT_PARAGRAPHS ==
    <<<<"A", "l", "l", " ", "n", "o", "t", "a", "b", "l", "e", " ", "c", "h", "a", "n", "g", "e", "s", " ", "t", "o", " ", "t", "h", "i", "s", " ", "p", "r", "o", "j", "e", "c", "t", " ", "w", "i", "l", "l", " ", "b", "e", " ", "d", "o", "c", "u", "m", "e", "n", "t", "e", "d", " ", "i", "n", " ", "t", "h", "i", "s", " ", "f", "i", "l", "e", ".">>,
      <<"T", "h", "e", " ", "f", "o", "r", "m", "a", "t", " ", "i", "s", " ", "b", "a", "s", "e", "d", " ", "o", "n", " ", "[", "K", "e", "e", "p", " ", "a", " ", "C", "h", "a", "n", "g", "e", "l", "o", "g", "]", "(", "h", "t", "t", "p", "s", ":", "/", "/", "k", "e", "e", "p", "a", "c", "h", "a", "n", "g", "e", "l", "o", "g", ".", "c", "o", "m", "/", "e", "n", "/", "1", ".", "0", ".", "0", "/", ")", " ", "a", "n", "d", " ", "t", "h", "i", "s", " ", "p", "r", "o", "j", "e", "c", "t", " ", "a", "d", "h", "e", "r", "e", "s", " ", "t", "o", " ", "[", "S", "e", "m", "a", "n", "t", "i", "c", " ", "V", "e", "r", "s", "i", "o", "n", "i", "n", "g", "]", "(", "h", "t", "t", "p", "s", ":", "/", "/", "s", "e", "m", "v", "e", "r", ".", "o", "r", "g", "/", "s", "p", "e", "c", "/", "v", "2", ".", "0", ".", "0", ".", "h", "t", "m", "l", ")", ".">>>>

\* Header::default()
Header_default == [title |-> DEFAULT_TITLE, paragraphs |-> DEFAULT_PARAGRAPHS]

\* iter().map(|s| s.to_string()).collect::<String>(): the strings one after another
RECURSIVE Collect(_)
Collect(strs) == IF strs = <<>> THEN <<>> ELSE Head(strs) \o Collect(Tail(strs))

\* writeln!(f) and writeln!(f, "{para}") for a paragraph
ParagraphLines(para) == <<"\n">> \o para \o <<"\n">>

\* impl Display for Header
Header_to_string(h) ==
    <<"#", " ">> \o h.title \o <<"\n">>
        \o Collect([i \in 1..Len(h.paragraphs) |-> ParagraphLines(h.paragraphs[i])])

----------------------------------------------------------------------------
(* The headings (config/heading_mgmt.rs) and the rendering (section.rs, link.rs,
   change_log.rs) *)

\* The headings that impl Display for Section names
H_Added == <<"A", "d", "d", "e", "d">>
H_Fixed == <<"F", "i", "x", "e", "d">>
H_Changed == <<"C", "h", "a", "n", "g", "e", "d">>
H_Security == <<"S", "e", "c", "u", "r", "i", "t", "y">>
H_Test == <<"T", "e", "s", "t">>
H_Documentation == <<"D", "o", "c", "u", "m", "e", "n", "t", "a", "t", "i", "o", "n">>
H_Chore == <<"C", "h", "o", "r", "e">>
H_Continuous_Integration == <<"C", "o", "n", "t", "i", "n", "u", "o", "u", "s", " ", "I", "n", "t", "e", "g", "r", "a", "t", "i", "o", "n">>
H_Deprecated == <<"D", "e", "p", "r", "e", "c", "a", "t", "e", "d">>
H_Removed == <<"R", "e", "m", "o", "v", "e", "d">>
H_Miscellaneous == <<"M", "i", "s", "c", "e", "l", "l", "a", "n", "e", "o", "u", "s">>

\* BTreeMap::insert
Insert(map, key, value) ==
    [k \in DOMAIN map \cup {key} |-> IF k = key THEN value ELSE map[k]]

HasHeading(headings, group) == \E k \in DOMAIN headings : headings[k] = group

\* add_heading with "Miscellaneous" among the headings: the group takes the last
\* key but one and "Miscellaneous" the last
\* An add_heading that puts the group after "Miscellaneous"
AddAfterMiscellaneous(headings, i, group) == Insert(headings, i, group)

AddBeforeMiscellaneous(headings, i, group) ==
    Insert(Insert(headings, i - 1, group), i, H_Miscellaneous)

\* HeadingMgmt::add_heading for BTreeMap<u8, String>
add_heading(headings, group) ==
    IF as_u8(Cardinality(DOMAIN headings)) = U8Max THEN headings
    ELSE IF HasHeading(headings, group) THEN headings
    ELSE IF HasHeading(headings, H_Miscellaneous) /\ group # H_Miscellaneous
         THEN AddBeforeMiscellaneous(headings, as_u8(Cardinality(DOMAIN headings)), group)
         ELSE Insert(headings, as_u8(Cardinality(DOMAIN headings)), group)

\* BTreeMap::remove
Remove(map, key) == [k \in DOMAIN map \ {key} |-> map[k]]

\* HeadingMgmt::add_miscellaneous for BTreeMap<u8, String>
add_miscellaneous(headings) ==
    IF HasHeading(headings, H_Miscellaneous) THEN headings
    ELSE add_heading(headings, H_Miscellaneous)

\* HeadingMgmt::remove_miscellaneous for BTreeMap<u8, String>: the entry at the key
\* len - 1 goes when "Miscellaneous" is a heading
remove_miscellaneous(headings) ==
    IF HasHeading(headings, H_Miscellaneous)
    THEN Remove(headings, as_u8(Cardinality(DOMAIN headings)) - 1)
    ELSE headings

\* self.headings.contains(heading): the heading is one of the configured headings
headings_contains(headings, heading) == HasHeading(headings, heading)

\* impl Display for Link
Link_to_string(link) == <<"[">> \o link.anchor \o <<"]", " ">> \o link.url \o <<"\n">>

\* format!(" - {}\n", c.title_as_string())
BulletLine(c) == <<" ", "-", " ">> \o title_as_string(c) \o <<"\n">>

\* Section::commits_markdown
commits_markdown(section, heading, commits) ==
    IF ~headings_contains(section.headings, heading) \/ commits = <<>> THEN None
    ELSE Some(<<"#", "#", "#", " ">> \o heading \o <<"\n", "\n">>
                \o Collect([i \in 1..Len(commits) |-> BulletLine(commits[i])])
                \o <<"\n">>)

\* Two digits of a number below 100
Pad2(n) == IF n < 10 THEN <<"0">> \o NumStr(n) ELSE NumStr(n)

\* date.format("%Y-%m-%d") for a time within January 1970
DateFormat(seconds) ==
    <<"1", "9", "7", "0", "-", "0", "1", "-">> \o Pad2((seconds \div 86400) + 1)

\* let header = .. of impl Display for Section, for a section with a tag
TaggedHeader(t) ==
    <<"#", "#", " ", "[">>
        \o (IF t.semver.some THEN Version_to_string(t.semver.val) ELSE S_Unreleased)
        \o <<"]", " ", "-", " ">>
        \o (IF t.date.some THEN DateFormat(t.date.val) ELSE <<>>)

SectionHeader(section) ==
    IF section.tag.some THEN TaggedHeader(section.tag.val)
    ELSE <<"#", "#", " ", "[">> \o S_Unreleased \o <<"]">>

\* The twelve commits_markdown(..).unwrap_or_default() of impl Display for Section
SectionBlocks(section) ==
    unwrap_or_default(commits_markdown(section, H_Added, section.added_commits))
    \o unwrap_or_default(commits_markdown(section, H_Fixed, section.fixed_commits))
    \o unwrap_or_default(commits_markdown(section, H_Changed, section.changed_commits))
    \o unwrap_or_default(commits_markdown(section, H_Security, section.security_commits))
    \o unwrap_or_default(commits_markdown(section, H_Security, section.build_commits))
    \o unwrap_or_default(commits_markdown(section, H_Test, section.test_commits))
    \o unwrap_or_default(commits_markdown(section, H_Documentation,
                                          section.documentation_commits))
    \o unwrap_or_default(commits_markdown(section, H_Chore, section.chore_commits))
    \o unwrap_or_default(commits_markdown(section, H_Continuous_Integration,
                                          section.ci_commits))
    \o unwrap_or_default(commits_markdown(section, H_Deprecated,
                                          section.deprecated_commits))
    \o unwrap_or_default(commits_markdown(section, H_Removed, section.removed_commits))
    \o unwrap_or_default(commits_markdown(section, H_Miscellaneous, section.misc_commits))

\* impl Display for Section
Section_to_string(section) ==
    <<"\n">> \o SectionHeader(section) \o <<"\n", "\n">> \o SectionBlocks(section)
        \o <<"\n">>

\* Section::set_version(nv): the section is tagged anew, with a tag of the version
\* that nv parses to; its commits stay as they are
Section_set_version(section, nv) ==
    [section EXCEPT !.tag = Some([id |-> 0, name |-> nv, package |-> None,
                                  semver |-> Version_parse(nv), date |-> None])]

\* A renaming of every section, not of the first alone
update_unreleased_to_next_version_all(ss, nv) ==
    IF ss # <<>> /\ nv.some
    THEN [i \in 1..Len(ss) |-> Section_set_version(ss[i], nv.val)]
    ELSE ss

\* ChangeLogBuilder::update_unreleased_to_next_version: the sections after the call
update_unreleased_to_next_version(ss, nv) ==
    IF ss # <<>> /\ nv.some
    THEN [ss EXCEPT ![1] = Section_set_version(ss[1], nv.val)]
    ELSE ss

\* ChangeLogBuilder::build
build(h, ss, ls) == [header |-> h, sections |-> ss, links |-> ls]

\* A rendering with the links before the sections
ChangeLog_to_string_links_first(change_log) ==
    Header_to_string(change_log.header) \o <<"\n">>
        \o Collect([i \in 1..Len(change_log.links) |->
                        Link_to_string(change_log.links[i])])
        \o Collect([i \in 1..Len(change_log.sections) |->
                        Section_to_string(change_log.sections[i])])
        \o <<"\n">>

\* impl Display for ChangeLog
ChangeLog_to_string(change_log) ==
    Header_to_string(change_log.header) \o <<"\n">>
        \o Collect([i \in 1..Len(change_log.sections) |->
                        Section_to_string(change_log.sections[i])])
        \o Collect([i \in 1..Len(change_log.links) |->
                        Link_to_string(change_log.links[i])])
        \o <<"\n">>

----------------------------------------------------------------------------
(* The repositories and the configurations the walk is run on *)

MaxCommits == 3
MaxTags == 2
MaxCustom == 3

T_v1_0_0 == <<"r", "e", "f", "s", "/", "t", "a", "g", "s", "/", "v", "1", ".", "0", ".", "0">>
T_v2_0_0 == <<"r", "e", "f", "s", "/", "t", "a", "g", "s", "/", "v", "2", ".", "0", ".", "0">>
T_v0_1_0 == <<"r", "e", "f", "s", "/", "t", "a", "g", "s", "/", "v", "0", ".", "1", ".", "0">>
T_nightly == <<"r", "e", "f", "s", "/", "t", "a", "g", "s", "/", "n", "i", "g", "h", "t", "l", "y">>
TagNamePool == <<T_v1_0_0, T_v2_0_0, T_v0_1_0, T_nightly>>

M_feat == <<"f", "e", "a", "t", ":", " ", "a">>
M_fix == <<"f", "i", "x", "(", "c", "o", "r", "e", ")", "!", ":", " ", "b">>
M_chore_deps == <<"c", "h", "o", "r", "e", "(", "d", "e", "p", "s", ")", ":", " ", "c">>
M_random == <<"r", "a", "n", "d", "o", "m", " ", "t", "e", "x", "t">>
M_docs == <<"d", "o", "c", "s", ":", " ", "d">>
SummaryPool == <<Some(M_feat), Some(M_fix), None, Some(M_chore_deps), Some(M_random),
                 Some(M_docs)>>

R_https == <<"h", "t", "t", "p", "s", ":", "/", "/", "g", "i", "t", "h", "u", "b", ".", "c", "o", "m", "/", "j", "e", "r", "u", "s", "-", "o", "r", "g", "/", "g", "e", "n", "-", "c", "h", "a", "n", "g", "e", "l", "o", "g", ".", "g", "i", "t">>
R_ssh == <<"g", "i", "t", "@", "g", "i", "t", "h", "u", "b", ".", "c", "o", "m", ":", "j", "e", "r", "u", "s", "-", "o", "r", "g", "/", "g", "e", "n", "-", "c", "h", "a", "n", "g", "e", "l", "o", "g", ".", "g", "i", "t">>
R_gitlab == <<"h", "t", "t", "p", "s", ":", "/", "/", "g", "i", "t", "l", "a", "b", ".", "c", "o", "m", "/", "j", "e", "r", "u", "s", "-", "o", "r", "g", "/", "g", "e", "n", "-", "c", "h", "a", "n", "g", "e", "l", "o", "g", ".", "g", "i", "t">>

\* The members of a set of numbers, smallest first
RECURSIVE Ascending(_)
Ascending(ns) ==
    IF ns = {} THEN <<>>
    ELSE LET m == CHOOSE c \in ns : \A d \in ns : c <= d
         IN <<m>> \o Ascending(ns \ {m})

\* The parents a commit can have: the commit before it, the one before that, or both
ParentChoices(i) ==
    IF i = 1 THEN {{}}
    ELSE IF i = 2 THEN {{1}}
    ELSE {{i - 1}, {i - 2}, {i - 1, i - 2}}

Histories(n) == {ps \in [1..n -> SUBSET (1..n)] : \A i \in 1..n : ps[i] \in ParentChoices(i)}

\* The tags of a repository: at most MaxTags names of the pool, each on a commit
TagLists(n) ==
    {[k \in 1..Len(Ascending(names)) |->
         [id |-> place[Ascending(names)[k]], name |-> TagNamePool[Ascending(names)[k]]]] :
       <<names, place>> \in
         {<<ns, f>> \in (SUBSET (1..Len(TagNamePool))) \X [1..Len(TagNamePool) -> 1..n] :
            /\ Cardinality(ns) <= MaxTags
            /\ \A i \in (1..Len(TagNamePool)) \ ns : f[i] = 1}}

\* The summaries of the commits, taken from the pool in turn
Summaries(n, shift) ==
    [i \in 1..n |-> SummaryPool[((i + shift - 1) % Len(SummaryPool)) + 1]]

Variants == {[remote |-> Some(R_https), shift |-> 0],
             [remote |-> Some(R_ssh), shift |-> 3]}

\* A repository with no commit has an unborn HEAD and no tag
EmptyRepository(remote) ==
    [n |-> 0, parents |-> <<>>, head |-> 0, summary |-> <<>>, tags |-> <<>>,
     remote |-> remote, annotated |-> {}]

Repositories ==
    {EmptyRepository(Some(R_https))} \cup
    {[n |-> n, parents |-> ps, head |-> h, summary |-> Summaries(n, v.shift),
      tags |-> ts, remote |-> v.remote, annotated |-> {}] :
        <<n, ps, h, ts, v>> \in
            {x \in (1..MaxCommits) \X (UNION {Histories(m) : m \in 1..MaxCommits})
                     \X (1..MaxCommits)
                     \X (UNION {TagLists(m) : m \in 1..MaxCommits}) \X Variants :
                /\ x[2] \in Histories(x[1])
                /\ x[3] <= x[1]
                /\ x[4] \in TagLists(x[1])}}
\* Repositories with a release tag on an object that is no commit (id 0)
TreeTagRepositories ==
    {[n |-> 2, parents |-> <<{}, {1}>>, head |-> 2, summary |-> Summaries(2, 0),
      tags |-> ts, remote |-> Some(R_https), annotated |-> {}] :
        ts \in {<<[id |-> 0, name |-> T_v1_0_0]>>} \cup
               {<<[id |-> a, name |-> T_v1_0_0], [id |-> b, name |-> T_v2_0_0]>> :
                   <<a, b>> \in {x \in (0..2) \X (0..2) : x[1] = 0 \/ x[2] = 0}}}

\* A repository with many release tags: v0.0.1 .. v0.0.t on a history of two commits
T_bulk == <<"r", "e", "f", "s", "/", "t", "a", "g", "s", "/", "v", "0", ".", "0", ".">>
BulkRepository(t) ==
    [n |-> 2, parents |-> <<{}, {1}>>, head |-> 2, summary |-> Summaries(2, 0),
     tags |-> [k \in 1..t |-> [id |-> (k % 2) + 1, name |-> T_bulk \o NumStr(k)]],
     remote |-> Some(R_https), annotated |-> {}]

All == [kind |-> "All"]
One == [kind |-> "One"]
Custom(n) == [kind |-> "Custom", n |-> n]

\* The headings of ChangeLogConfig::default()
DefaultHeadings ==
    add_heading(add_heading(add_heading(add_heading(<<>>, H_Added), H_Fixed), H_Changed),
                H_Security)
V_prefix == <<"v">>

\* ChangeLogConfig::default() with a display_sections
Config(display_sections) ==
    [display_sections |-> display_sections,
     release_pattern |-> [kind |-> "Prefix", p |-> V_prefix],
     headings |-> DefaultHeadings]

Policies == {All, One} \cup {Custom(n) : n \in 0..MaxCustom}

\* A set_display_sections with no arm for 1
set_display_sections_custom_only(cfg, value) ==
    IF ~value.some THEN cfg ELSE [cfg EXCEPT !.display_sections = Custom(value.val)]

\* ChangeLogConfig::set_display_sections
set_display_sections(cfg, value) ==
    IF ~value.some THEN cfg
    ELSE IF value.val = 1 THEN [cfg EXCEPT !.display_sections = One]
    ELSE [cfg EXCEPT !.display_sections = Custom(value.val)]

\* ChangeLogConfig::publish_group: the group is added to the headings (the publish
\* flag of the group is not part of this model)
publish_group(cfg, group_name) ==
    [cfg EXCEPT !.headings = add_heading(@, group_name)]

T_v1_00_0 == <<"r", "e", "f", "s", "/", "t", "a", "g", "s", "/", "v", "1", ".", "0", "0", ".", "0">>

\* Repositories with a tag that PREFIX matches and Version::parse rejects (a minor
\* with a leading zero)
UnparsedTagRepositories ==
    {[n |-> 2, parents |-> <<{}, {1}>>, head |-> 2, summary |-> Summaries(2, 0),
      tags |-> ts, remote |-> Some(R_https), annotated |-> {}] :
        ts \in {<<[id |-> 1, name |-> T_v1_00_0]>>,
                <<[id |-> 1, name |-> T_v1_00_0], [id |-> 2, name |-> T_v1_0_0]>>,
                <<[id |-> 2, name |-> T_v1_00_0], [id |-> 1, name |-> T_v1_0_0]>>,
                <<[id |-> 1, name |-> T_v2_0_0], [id |-> 2, name |-> T_v1_00_0],
                  [id |-> 1, name |-> T_v1_0_0]>>}}

Scenarios ==
    (Repositories \X {Config(d) : d \in Policies})
    \cup ({BulkRepository(U8Max - 1), BulkRepository(U8Max)}
             \X {Config(All), Config(Custom(MaxCustom))})
    \cup ({EmptyRepository(None), EmptyRepository(Some(R_gitlab))} \X {Config(All)})
    \cup (TreeTagRepositories \X {Config(All)})
    \cup (UnparsedTagRepositories \X {Config(All)})

----------------------------------------------------------------------------
(* ChangeLogBuilder::with_repository on a fresh builder *)

Init ==
    /\ \E sc \in Scenarios : repository = sc[1] /\ config = sc[2]
    /\ pc = "with_repository"
    /\ self_owner = <<>>
    /\ self_repo = <<>>
    /\ version_tags = <<>>
    /\ section_limit = 0
    /\ section_count = 0
    /\ tag_idx = 0
    /\ revwalk = Revwalk_idle
    /\ sections = <<>>
    /\ links = <<>>
    /\ windows = <<>>
    /\ summary = None
    /\ cc = ConvCommit_default
    /\ bullet = <<>>
    /\ header = Header_default
    /\ documents = <<>>
    /\ next_version = None
    /\ call = NoCall
    /\ added = <<>>
    /\ groups = <<>>
    /\ mapping = None
    /\ tag_builder = None

\* get_remote_details fails and with_repository returns the error
RemoteFails ==
    /\ pc = "with_repository"
    /\ ~get_remote_details(repository).ok
    /\ pc' = "err"
    /\ UNCHANGED <<repository, config, self_owner, self_repo, version_tags, section_limit,
                   section_count, tag_idx, revwalk, sections, links, windows, summary,
                   cc, bullet, header, documents, next_version,
                   tag_builder,
                   call, added, groups, mapping>>

\* The head of with_repository: the remote, the release tags, the limit, the revwalk
Prepare ==
    /\ pc = "with_repository"
    /\ \E details \in {get_remote_details(repository)} :
          /\ details.ok
          /\ self_owner' = details.owner
          /\ self_repo' = details.repo
    /\ \E tags \in {get_version_tags(repository, config)} :
          /\ version_tags' = tags
          /\ section_limit' = SectionLimit(config.display_sections, Len(tags))
    /\ revwalk' = Revwalk_new
    /\ pc' = "first_section"
    /\ UNCHANGED <<repository, config, section_count, tag_idx, sections, links, windows,
                   summary, cc, bullet, header, documents, next_version,
                   tag_builder,
                   call, added, groups, mapping>>

\* The setup of the first section
FirstSetup == IF version_tags = <<>> THEN NoReleases ELSE HeadToRelease(version_tags[1])

\* push_head fails in the walk of the first section
FirstWalkFails ==
    /\ pc = "first_section"
    /\ WalkFails(FirstSetup, repository)
    /\ pc' = "err"
    /\ UNCHANGED <<repository, config, self_owner, self_repo, version_tags, section_limit,
                   section_count, tag_idx, revwalk, sections, links, windows, summary,
                   cc, bullet, header, documents, next_version,
                   tag_builder,
                   call, added, groups, mapping>>

\* A walk that pushes the section and sets no link
Walk_unlinked(section, setup) ==
    /\ sections' = Append(sections, walk_repository(section, setup, repository, revwalk))
    /\ windows' = Append(windows,
                         [setup |-> setup,
                          oids |-> Yielded(SetUpWalk(setup, revwalk, repository),
                                           repository)])
    /\ links' = links
    /\ revwalk' = Exhausted(SetUpWalk(setup, revwalk, repository))

\* The walk of a window: the section is filled, the window is recorded, the section
\* and its link are pushed, and the revwalk is left as its iteration leaves it
Walk(section, setup) ==
    /\ sections' = Append(sections, walk_repository(section, setup, repository, revwalk))
    /\ windows' = Append(windows,
                         [setup |-> setup,
                          oids |-> Yielded(SetUpWalk(setup, revwalk, repository),
                                           repository)])
    /\ links' = Append(links, set_link(setup, self_owner, self_repo))
    /\ revwalk' = Exhausted(SetUpWalk(setup, revwalk, repository))

\* The first section: NoReleases, or HeadToRelease of the newest release tag
FirstSection ==
    /\ pc = "first_section"
    /\ ~WalkFails(FirstSetup, repository)
    /\ Walk(Section_new(None, config.headings), FirstSetup)
    /\ section_count' = 1
    /\ pc' = IF version_tags = <<>> THEN "done" ELSE "releases"
    /\ UNCHANGED <<repository, config, self_owner, self_repo, version_tags, section_limit,
                   tag_idx, summary, cc, bullet, header, documents, next_version,
                   tag_builder,
                   call, added, groups, mapping>>

\* The setup of the turn for the tag at place i of the release tags
\* A setup of a release that never looks at the next tag
ReleaseSetup_to_start(tags, i) == ReleaseToStart(tags[i])

ReleaseSetup(tags, i) ==
    IF i + 1 <= Len(tags) THEN FromReleaseToRelease(tags[i], tags[i + 1])
    ELSE ReleaseToStart(tags[i])

\* One turn of the loop over the release tags
ReleaseSection ==
    /\ pc = "releases"
    /\ section_count < section_limit
    /\ tag_idx < Len(version_tags)
    /\ ~WalkFails(ReleaseSetup(version_tags, tag_idx + 1), repository)
    /\ Walk(Section_new(Some(version_tags[tag_idx + 1]), config.headings),
            ReleaseSetup(version_tags, tag_idx + 1))
    /\ tag_idx' = tag_idx + 1
    /\ section_count' = section_count + 1
    /\ UNCHANGED <<repository, config, pc, self_owner, self_repo, version_tags,
                   section_limit, summary, cc, bullet, header, documents, next_version,
                   tag_builder,
                   call, added, groups, mapping>>

\* push or hide_ref fails in the walk of a release: with_repository returns the
\* error, with the sections and the links of the windows before it
ReleaseWalkFails ==
    /\ pc = "releases"
    /\ section_count < section_limit
    /\ tag_idx < Len(version_tags)
    /\ WalkFails(ReleaseSetup(version_tags, tag_idx + 1), repository)
    /\ pc' = "err"
    /\ UNCHANGED <<repository, config, self_owner, self_repo, version_tags, section_limit,
                   section_count, tag_idx, revwalk, sections, links, windows, summary,
                   cc, bullet, header, documents, next_version,
                   tag_builder,
                   call, added, groups, mapping>>

\* The loop ends: the limit is reached or the tags are used up
ReleasesDone ==
    /\ pc = "releases"
    /\ ~(section_count < section_limit /\ tag_idx < Len(version_tags))
    /\ pc' = "done"
    /\ UNCHANGED <<repository, config, self_owner, self_repo, version_tags, section_limit,
                   section_count, tag_idx, revwalk, sections, links, windows, summary,
                   cc, bullet, header, documents, next_version,
                   tag_builder,
                   call, added, groups, mapping>>

Next ==
    \/ RemoteFails
    \/ Prepare
    \/ FirstWalkFails
    \/ FirstSection
    \/ ReleaseSection
    \/ ReleaseWalkFails
    \/ ReleasesDone

Spec == Init /\ [][Next]_vars
----------------------------------------------------------------------------
(* get_version_tags on the tags of a repository *)

MaxTagList == 3

S_refs_tags == <<"r", "e", "f", "s", "/", "t", "a", "g", "s", "/">>
ComponentPool == {0, 1, 10, 123}
PrefixPool == {<<>>, <<"v">>, <<"V">>, <<"r", "e", "l", "-">>, <<"v", "_">>}
SuffixPool == {<<>>, <<"x">>, <<"-", "a", "l", "p", "h", "a">>, <<"+", "b">>}

\* refs/tags/{prefix}{major}.{minor}.{patch}{suffix}
TagName(prefix, major, minor, patch, suffix) ==
    S_refs_tags \o prefix \o NumStr(major) \o <<".">> \o NumStr(minor) \o <<".">>
                \o NumStr(patch) \o suffix

SingleNames ==
    {TagName(x[1], x[2], x[3], x[4], x[5]) :
        x \in PrefixPool \X ComponentPool \X ComponentPool \X ComponentPool \X SuffixPool}

T_v1_5_0_alpha == <<"r", "e", "f", "s", "/", "t", "a", "g", "s", "/", "v", "1", ".", "5", ".", "0", "-", "a", "l", "p", "h", "a">>
T_v1_0_0_b == <<"r", "e", "f", "s", "/", "t", "a", "g", "s", "/", "v", "1", ".", "0", ".", "0", "+", "b">>
T_v1_0_0x == <<"r", "e", "f", "s", "/", "t", "a", "g", "s", "/", "v", "1", ".", "0", ".", "0", "x">>
T_v10_0_0 == <<"r", "e", "f", "s", "/", "t", "a", "g", "s", "/", "v", "1", "0", ".", "0", ".", "0">>
ListPool == {T_v1_0_0, T_v2_0_0, T_v1_5_0_alpha, T_v1_0_0_b, T_v1_0_0x, T_v10_0_0,
             T_nightly}

\* The lists of tag names: one name, or up to MaxTagList names of the pool, no name
\* twice
NameLists ==
    {<<name>> : name \in SingleNames} \cup
    {names \in UNION {[1..len -> ListPool] : len \in 2..MaxTagList} :
        \A i, j \in 1..Len(names) : names[i] = names[j] => i = j}

\* A repository of one commit that carries the tags
TagRepository(names) ==
    [n |-> 1, parents |-> <<{}>>, head |-> 1, summary |-> <<Some(M_feat)>>,
     tags |-> [k \in 1..Len(names) |-> [id |-> 1, name |-> names[k]]],
     remote |-> Some(R_https), annotated |-> {}]

InitTags ==
    /\ \E names \in NameLists : repository = TagRepository(names)
    /\ config = Config(All)
    /\ pc = "get_version_tags"
    /\ self_owner = <<>>
    /\ self_repo = <<>>
    /\ version_tags = <<>>
    /\ section_limit = 0
    /\ section_count = 0
    /\ tag_idx = 0
    /\ revwalk = Revwalk_idle
    /\ sections = <<>>
    /\ links = <<>>
    /\ windows = <<>>
    /\ summary = None
    /\ cc = ConvCommit_default
    /\ bullet = <<>>
    /\ header = Header_default
    /\ documents = <<>>
    /\ next_version = None
    /\ call = NoCall
    /\ added = <<>>
    /\ groups = <<>>
    /\ mapping = None
    /\ tag_builder = None

\* let version_tags = self.get_version_tags(repository)?
GetVersionTags ==
    /\ pc = "get_version_tags"
    /\ version_tags' = get_version_tags(repository, config)
    /\ pc' = "version_tags"
    /\ UNCHANGED <<repository, config, self_owner, self_repo, section_limit,
                   section_count, tag_idx, revwalk, sections, links, windows, summary,
                   cc, bullet, header, documents, next_version,
                   tag_builder,
                   call, added, groups, mapping>>

NextTags == GetVersionTags

SpecTags == InitTags /\ [][NextTags]_vars

----------------------------------------------------------------------------
(* ConvCommit::new, add_commit and the bullet of a summary *)

MaxSummaryLen == 4

SummaryChars == {"a", "(", ")", "!", ":", " ", "\n"}

M_example == <<"f", "e", "a", "t", "(", "c", "o", "r", "e", ")", "!", ":", " ", "a", "d", "d", " ", "x">>
M_Feat == <<"F", "e", "a", "t", ":", " ", "a">>
M_CHORE == <<"C", "H", "O", "R", "E", "(", "d", "e", "p", "s", ")", ":", " ", "a">>
K_wip == <<"w", "i", "p">>

KindPool == {K_feat, K_fix, K_refactor, K_security, K_dependency, K_build, K_doc, K_docs,
             K_chore, K_ci, K_test, K_deprecated, K_removed, K_misc, K_wip}
EmojiPool == {<<>>, <<"x", " ">>}
ScopePool == {<<>>, <<"(", "d", "e", "p", "s", ")">>, <<"(", "c", "o", "r", "e", ")">>, <<"(", "a", ")", "(", "b", ")">>}
BreakingPool == {<<>>, <<"!">>}
DescriptionPool == {<<>>, <<"a", "d", "d", " ", "x">>}

\* The summaries: every text of up to MaxSummaryLen characters, the texts put
\* together from the pools, and some texts that are not conventional
SummaryTexts ==
    UNION {[1..len -> SummaryChars] : len \in 0..MaxSummaryLen}
    \cup {x[1] \o x[2] \o x[3] \o x[4] \o <<":", " ">> \o x[5] :
            x \in EmojiPool \X KindPool \X ScopePool \X BreakingPool \X DescriptionPool}
    \cup {M_example, M_random, M_Feat, M_CHORE}

InitClassify ==
    /\ summary \in {None} \cup {Some(text) : text \in SummaryTexts}
    /\ repository = EmptyRepository(None)
    /\ config = Config(All)
    /\ pc = "add_commit"
    /\ self_owner = <<>>
    /\ self_repo = <<>>
    /\ version_tags = <<>>
    /\ section_limit = 0
    /\ section_count = 0
    /\ tag_idx = 0
    /\ revwalk = Revwalk_idle
    /\ sections = <<>>
    /\ links = <<>>
    /\ windows = <<>>
    /\ cc = ConvCommit_default
    /\ bullet = <<>>
    /\ header = Header_default
    /\ documents = <<>>
    /\ next_version = None
    /\ call = NoCall
    /\ added = <<>>
    /\ groups = <<>>
    /\ mapping = None
    /\ tag_builder = None

\* self.add_commit(summary, body) on a new Section; cc is the ConvCommit made of
\* the summary
AddCommit ==
    /\ pc = "add_commit"
    /\ cc' = ConvCommit_new(summary, None)
    /\ sections' = <<add_commit(Section_new(None, config.headings), summary, None)>>
    /\ pc' = "commits_markdown"
    /\ UNCHANGED <<repository, config, self_owner, self_repo, version_tags, section_limit,
                   section_count, tag_idx, revwalk, links, windows, summary, bullet, header, documents, next_version,
                   tag_builder,
                   call, added, groups, mapping>>

\* The bullet of the commit in commits_markdown: c.title_as_string()
CommitsMarkdown ==
    /\ pc = "commits_markdown"
    /\ bullet' = title_as_string(cc)
    /\ pc' = "bullet"
    /\ UNCHANGED <<repository, config, self_owner, self_repo, version_tags, section_limit,
                   section_count, tag_idx, revwalk, sections, links, windows, summary,
                   cc, header, documents, next_version,
                   tag_builder,
                   call, added, groups, mapping>>

NextClassify ==
    \/ AddCommit
    \/ CommitsMarkdown

SpecClassify == InitClassify /\ [][NextClassify]_vars

----------------------------------------------------------------------------
(* get_remote_details on the remotes of a pool *)

S_git_at_github_com == <<"g", "i", "t", "@", "g", "i", "t", "h", "u", "b", ".", "c", "o", "m", ":">>
H_gitlab == <<"h", "t", "t", "p", "s", ":", "/", "/", "g", "i", "t", "l", "a", "b", ".", "c", "o", "m", "/">>
H_git_at_githubXcom == <<"g", "i", "t", "@", "g", "i", "t", "h", "u", "b", "X", "c", "o", "m", ":">>
H_xhttps == <<"x", "h", "t", "t", "p", "s", ":", "/", "/", "g", "i", "t", "h", "u", "b", ".", "c", "o", "m", "/">>
HostPool == {S_https_github, S_git_at_github_com, H_gitlab, H_git_at_githubXcom, H_xhttps}

MaxOwner == 39
OwnerPool ==
    {<<"a">>, <<"u", "s", "e", "r">>, <<"a", "-", "b">>, <<"-", "a">>, <<"a", "-">>, <<"a", "_", "b">>, <<>>,
     [i \in 1..MaxOwner |-> "a"], [i \in 1..(MaxOwner + 1) |-> "a"]}

RepoPool ==
    {<<"r">>, <<"a", "b">>, <<"a", "b", "c">>, <<"m", "y", "-", "r", "e", "p", "o">>, <<"r", "e", "p", "o", "_", "n", "a", "m", "e">>, <<"a", "b", "-">>,
     <<"-", "a", "b">>, <<"a", ".", "b">>, <<"a", "/", "b">>, <<>>}

UrlSuffixPool == {S_dot_git, <<>>, <<".", "g", "i", "t", "/">>}

RemotePool ==
    {x[1] \o x[2] \o <<"/">> \o x[3] \o x[4] :
        x \in HostPool \X OwnerPool \X RepoPool \X UrlSuffixPool}

InitRemote ==
    /\ \E url \in RemotePool : repository = EmptyRepository(Some(url))
    /\ config = Config(All)
    /\ pc = "get_remote_details"
    /\ self_owner = <<>>
    /\ self_repo = <<>>
    /\ version_tags = <<>>
    /\ section_limit = 0
    /\ section_count = 0
    /\ tag_idx = 0
    /\ revwalk = Revwalk_idle
    /\ sections = <<>>
    /\ links = <<>>
    /\ windows = <<>>
    /\ summary = None
    /\ cc = ConvCommit_default
    /\ bullet = <<>>
    /\ header = Header_default
    /\ documents = <<>>
    /\ next_version = None
    /\ call = NoCall
    /\ added = <<>>
    /\ groups = <<>>
    /\ mapping = None
    /\ tag_builder = None

\* get_remote_details returns Ok: the owner and the repo are set
GetRemoteDetails ==
    /\ pc = "get_remote_details"
    /\ \E details \in {get_remote_details(repository)} :
          /\ details.ok
          /\ self_owner' = details.owner
          /\ self_repo' = details.repo
    /\ pc' = "remote_details"
    /\ UNCHANGED <<repository, config, version_tags, section_limit, section_count,
                   tag_idx, revwalk, sections, links, windows, summary, cc, bullet, header, documents, next_version,
                   tag_builder,
                   call, added, groups, mapping>>

\* get_remote_details returns an Err: the builder is as it was
GetRemoteDetailsFails ==
    /\ pc = "get_remote_details"
    /\ ~get_remote_details(repository).ok
    /\ pc' = "err"
    /\ UNCHANGED <<repository, config, self_owner, self_repo, version_tags, section_limit,
                   section_count, tag_idx, revwalk, sections, links, windows, summary,
                   cc, bullet, header, documents, next_version,
                   tag_builder,
                   call, added, groups, mapping>>

NextRemote == GetRemoteDetails \/ GetRemoteDetailsFails

SpecRemote == InitRemote /\ [][NextRemote]_vars
----------------------------------------------------------------------------
(* with_repository, update_unreleased_to_next_version, build and the rendering of
   the ChangeLog *)

MaxRenderCommits == 3
MaxRenders == 2

M_build == <<"b", "u", "i", "l", "d", ":", " ", "e">>
M_test == <<"t", "e", "s", "t", ":", " ", "f">>
RenderSummaryPool ==
    <<Some(M_feat), Some(M_build), Some(M_fix), Some(M_random), Some(M_test),
      Some(M_docs), None>>

H_Build == <<"B", "u", "i", "l", "d">>
H_Testing == <<"T", "e", "s", "t", "i", "n", "g">>

\* Heading tables: the default one, one with Fixed before Added, the default one
\* with Build, and the default one with Miscellaneous and then Testing
HeadingTables ==
    {DefaultHeadings,
     add_heading(add_heading(<<>>, H_Fixed), H_Added),
     add_heading(DefaultHeadings, H_Build),
     add_heading(add_heading(DefaultHeadings, H_Miscellaneous), H_Testing)}

\* The tags of a history of n commits in a line, with the names of the annotated
RenderTags(n) ==
    {[tags |-> <<>>, annotated |-> {}],
     [tags |-> <<[id |-> 1, name |-> T_v1_0_0]>>, annotated |-> {}],
     [tags |-> <<[id |-> 1, name |-> T_v1_0_0]>>, annotated |-> {T_v1_0_0}],
     [tags |-> <<[id |-> 1, name |-> T_v1_0_0], [id |-> n, name |-> T_v2_0_0]>>,
      annotated |-> {T_v2_0_0}]}

RenderRepositories ==
    {[n |-> x[1],
      parents |-> [i \in 1..x[1] |-> IF i = 1 THEN {} ELSE {i - 1}],
      head |-> x[1],
      summary |-> [i \in 1..x[1] |->
                      RenderSummaryPool[((i + x[2] - 1) % Len(RenderSummaryPool)) + 1]],
      tags |-> x[3].tags, remote |-> Some(R_https), annotated |-> x[3].annotated] :
        x \in {y \in (1..MaxRenderCommits) \X (0..(Len(RenderSummaryPool) - 1))
                       \X UNION {RenderTags(m) : m \in 1..MaxRenderCommits} :
                  y[3] \in RenderTags(y[1])}}

H_title == <<"L", "o", "g">>
HeaderPool == {[title |-> H_title, paragraphs |-> <<>>],
               [title |-> H_title, paragraphs |-> <<<<"O", "n", "e", ".">>, <<"T", "w", "o", ".">>>>]}

V_1_2_0 == <<"1", ".", "2", ".", "0">>
NextVersionPool == {None, Some(V_1_2_0), Some(<<>>)}

InitRender ==
    /\ repository \in RenderRepositories
    /\ \E hs \in HeadingTables : config = [Config(All) EXCEPT !.headings = hs]
    /\ pc = "with_repository"
    /\ self_owner = <<>>
    /\ self_repo = <<>>
    /\ version_tags = <<>>
    /\ section_limit = 0
    /\ section_count = 0
    /\ tag_idx = 0
    /\ revwalk = Revwalk_idle
    /\ sections = <<>>
    /\ links = <<>>
    /\ windows = <<>>
    /\ summary = None
    /\ cc = ConvCommit_default
    /\ bullet = <<>>
    /\ header = Header_default
    /\ documents = <<>>
    /\ next_version = None
    /\ call = NoCall
    /\ added = <<>>
    /\ groups = <<>>
    /\ mapping = None
    /\ tag_builder = None

\* ChangeLogBuilder::with_header(title, paragraphs)
WithHeader ==
    /\ pc = "done"
    /\ header = Header_default
    /\ header' \in HeaderPool
    /\ UNCHANGED <<repository, config, pc, self_owner, self_repo, version_tags,
                   section_limit, section_count, tag_idx, revwalk, sections, links,
                   windows, summary, cc, bullet, documents, next_version,
                   tag_builder,
                   call, added, groups, mapping>>

\* update_unreleased_to_next_version(next_version), on a fresh builder or after
\* with_repository
UpdateUnreleased ==
    /\ pc \in {"with_repository", "done"}
    /\ \E nv \in NextVersionPool :
          /\ next_version' = nv
          /\ sections' = update_unreleased_to_next_version(sections, nv)
    /\ pc' = "updated"
    /\ UNCHANGED <<repository, config, self_owner, self_repo, version_tags,
                   section_limit, section_count, tag_idx, revwalk, links, windows,
                   summary, cc, bullet, header, documents, tag_builder,
                   call, added, groups, mapping>>

\* A rendering that numbers its output
Render_numbered ==
    /\ pc \in {"done", "updated", "rendered"}
    /\ Len(documents) < MaxRenders
    /\ documents' = Append(documents,
                           ChangeLog_to_string(build(header, sections, links))
                               \o NumStr(Len(documents)))
    /\ pc' = "rendered"
    /\ UNCHANGED <<repository, config, self_owner, self_repo, version_tags,
                   section_limit, section_count, tag_idx, revwalk, sections, links,
                   windows, summary, cc, bullet, header, next_version,
                   tag_builder,
                   call, added, groups, mapping>>

\* build() and the rendering of the ChangeLog (to_string in save, or println!)
Render ==
    /\ pc \in {"done", "updated", "rendered"}
    /\ Len(documents) < MaxRenders
    /\ documents' = Append(documents, ChangeLog_to_string(build(header, sections, links)))
    /\ pc' = "rendered"
    /\ UNCHANGED <<repository, config, self_owner, self_repo, version_tags,
                   section_limit, section_count, tag_idx, revwalk, sections, links,
                   windows, summary, cc, bullet, header, next_version,
                   tag_builder,
                   call, added, groups, mapping>>

NextRender ==
    \/ Prepare
    \/ FirstSection
    \/ ReleaseSection
    \/ ReleasesDone
    \/ WithHeader
    \/ UpdateUnreleased
    \/ Render

SpecRender == InitRender /\ [][NextRender]_vars
----------------------------------------------------------------------------
(* ReleasePattern::PackagePrefix: a tag builder, then with_repository *)

T_pkg_v1_0_0 == <<"r", "e", "f", "s", "/", "t", "a", "g", "s", "/", "p", "k", "g", "-", "v", "1", ".", "0", ".", "0">>
T_my_pkg_v2_0_0 == <<"r", "e", "f", "s", "/", "t", "a", "g", "s", "/", "m", "y", "-", "p", "k", "g", "-", "v", "2", ".", "0", ".", "0">>
T_pkg_r1_0_0 == <<"r", "e", "f", "s", "/", "t", "a", "g", "s", "/", "p", "k", "g", "-", "r", "1", ".", "0", ".", "0">>
PackageTagPool == {T_pkg_v1_0_0, T_my_pkg_v2_0_0, T_pkg_r1_0_0, T_v1_0_0, T_nightly}

P_pkg == <<"p", "k", "g">>
P_my_pkg == <<"m", "y", "-", "p", "k", "g">>
PackagePool == {P_pkg, P_my_pkg}

R_prefix == <<"r">>

MaxPackageCommits == 2

\* The lists of one or two tags of the pool on the commits 1..n
PackageTagLists(n) ==
    {<<[id |-> a, name |-> x]>> : <<a, x>> \in (1..n) \X PackageTagPool}
    \cup {<<[id |-> y[1], name |-> y[2]], [id |-> y[3], name |-> y[4]]>> :
              y \in {z \in (1..n) \X PackageTagPool \X (1..n) \X PackageTagPool :
                         z[2] # z[4]}}

PackageRepositories ==
    {[n |-> x[1],
      parents |-> [i \in 1..x[1] |-> IF i = 1 THEN {} ELSE {i - 1}],
      head |-> x[1], summary |-> Summaries(x[1], 0),
      tags |-> x[2], remote |-> Some(R_https), annotated |-> {}] :
        x \in {y \in (1..MaxPackageCommits)
                        \X UNION {PackageTagLists(m) : m \in 1..MaxPackageCommits} :
                  y[2] \in PackageTagLists(y[1])}}

\* A configuration with the release pattern of the kind and the prefix
ConfigPattern(kind, p) ==
    [Config(All) EXCEPT !.release_pattern = [kind |-> kind, p |-> p]]

PackageConfigs ==
    {Config(All), ConfigPattern("PackagePrefix", V_prefix),
     ConfigPattern("PackagePrefix", R_prefix)}

\* Tag::builder(id, name, repo) for a tag of the repository
InitPackage ==
    /\ repository \in PackageRepositories
    /\ config \in PackageConfigs
    /\ pc = "builder"
    /\ self_owner = <<>>
    /\ self_repo = <<>>
    /\ version_tags = <<>>
    /\ section_limit = 0
    /\ section_count = 0
    /\ tag_idx = 0
    /\ revwalk = Revwalk_idle
    /\ sections = <<>>
    /\ links = <<>>
    /\ windows = <<>>
    /\ summary = None
    /\ cc = ConvCommit_default
    /\ bullet = <<>>
    /\ header = Header_default
    /\ documents = <<>>
    /\ next_version = None
    /\ call = NoCall
    /\ added = <<>>
    /\ groups = <<>>
    /\ mapping = None
    /\ \E t \in 1..Len(repository.tags) :
          tag_builder = Tag_builder(repository.tags[t].id, repository.tags[t].name)

\* tag_builder.set_package(package)
SetPackage ==
    /\ pc = "builder"
    /\ \E package \in PackagePool : tag_builder' = set_package(tag_builder, package)
    /\ pc' = "package"
    /\ UNCHANGED <<repository, config, self_owner, self_repo, version_tags, section_limit,
                   section_count, tag_idx, revwalk, sections, links, windows, summary,
                   cc, bullet, header, documents, next_version,
                   call, added, groups, mapping>>

\* tag_builder.get_semver(config.release_pattern()), with or without a package set
GetSemver ==
    /\ pc \in {"builder", "package"}
    /\ tag_builder' = get_semver(tag_builder, config.release_pattern)
    /\ pc' = "with_repository"
    /\ UNCHANGED <<repository, config, self_owner, self_repo, version_tags, section_limit,
                   section_count, tag_idx, revwalk, sections, links, windows, summary,
                   cc, bullet, header, documents, next_version,
                   call, added, groups, mapping>>

NextPackage ==
    \/ SetPackage
    \/ GetSemver
    \/ Prepare
    \/ FirstSection
    \/ ReleaseSection
    \/ ReleasesDone

SpecPackage == InitPackage /\ [][NextPackage]_vars

----------------------------------------------------------------------------
(* The configuration: a loaded or default ChangeLogConfig and the calls on it *)

\* heading_serde::deserialize: the table name -> order of the file, a set of pairs
\* with one pair for a name, inverted in the order of the names; of two names with
\* one order the later name stays
deserialize(table) ==
    [k \in {e[2] : e \in table} |->
        CHOOSE name \in {e[1] : e \in {x \in table : x[2] = k}} :
            \A e \in table : e[2] = k => StrCmp(e[1], name) <= 0]

\* [headings] tables of a configuration file: the orders 1, 2, 3 of the example in
\* heading_serde, orders with a gap, Miscellaneous first, Miscellaneous last after
\* the order 0 left out
FileTables ==
    {{<<H_Added, 1>>, <<H_Fixed, 2>>, <<H_Changed, 3>>},
     {<<H_Added, 0>>, <<H_Fixed, 5>>},
     {<<H_Miscellaneous, 0>>, <<H_Added, 1>>},
     {<<H_Added, 1>>, <<H_Fixed, 2>>, <<H_Miscellaneous, 3>>},
     {<<H_Added, 0>>, <<H_Fixed, 1>>, <<H_Changed, 2>>}}

\* A headings map of n entries at the keys 0 .. n - 1
BulkHeadings(n) == [k \in 0..(n - 1) |-> <<"h">> \o NumStr(k)]

HeadingMaps ==
    {<<>>, DefaultHeadings, add_heading(DefaultHeadings, H_Miscellaneous)}
    \cup {deserialize(t) : t \in FileTables}
    \cup {BulkHeadings(U8Max - 1), BulkHeadings(U8Max)}

GroupNamePool == {H_Security, H_Testing, H_Build, H_Miscellaneous}

MaxReleases == 5
ReleasesPool == {None} \cup {Some(n) : n \in (0..MaxReleases) \cup {U8Max}}

\* ChangeLogConfig::default() or ChangeLogConfig::from_file(..)
InitConfig ==
    /\ repository = EmptyRepository(None)
    /\ \E hs \in HeadingMaps, d \in {All, One, Custom(MaxCustom)} :
          config = [Config(d) EXCEPT !.headings = hs]
    /\ pc = "config"
    /\ self_owner = <<>>
    /\ self_repo = <<>>
    /\ version_tags = <<>>
    /\ section_limit = 0
    /\ section_count = 0
    /\ tag_idx = 0
    /\ revwalk = Revwalk_idle
    /\ sections = <<>>
    /\ links = <<>>
    /\ windows = <<>>
    /\ summary = None
    /\ cc = ConvCommit_default
    /\ bullet = <<>>
    /\ header = Header_default
    /\ documents = <<>>
    /\ next_version = None
    /\ tag_builder = None
    /\ call = NoCall
    /\ added = <<>>
    /\ groups = <<>>
    /\ mapping = None

ConfigFrame ==
    UNCHANGED <<repository, pc, self_owner, self_repo, version_tags, section_limit,
                section_count, tag_idx, revwalk, sections, links, windows, summary, cc,
                bullet, header, documents, next_version, tag_builder, added, groups, mapping>>

\* config.set_display_sections(value)
SetDisplaySections ==
    /\ pc = "config"
    /\ \E value \in ReleasesPool :
          /\ config' = set_display_sections(config, value)
          /\ call' = [op |-> "set_display_sections", arg |-> value]
    /\ ConfigFrame

\* config.publish_group(group_name)
PublishGroup ==
    /\ pc = "config"
    /\ \E group_name \in GroupNamePool :
          /\ config' = publish_group(config, group_name)
          /\ call' = [op |-> "publish_group", arg |-> Some(group_name)]
    /\ ConfigFrame

\* config.headings.add_miscellaneous()
AddMiscellaneous ==
    /\ pc = "config"
    /\ config' = [config EXCEPT !.headings = add_miscellaneous(@)]
    /\ call' = [op |-> "add_miscellaneous", arg |-> None]
    /\ ConfigFrame

\* config.headings.remove_miscellaneous()
RemoveMiscellaneous ==
    /\ pc = "config"
    /\ config' = [config EXCEPT !.headings = remove_miscellaneous(@)]
    /\ call' = [op |-> "remove_miscellaneous", arg |-> None]
    /\ ConfigFrame

NextConfig ==
    \/ SetDisplaySections
    \/ PublishGroup
    \/ AddMiscellaneous
    \/ RemoveMiscellaneous

SpecConfig == InitConfig /\ [][NextConfig]_vars

----------------------------------------------------------------------------
(* A section and the add_commit calls on it *)

M_feat_z == <<"f", "e", "a", "t", ":", " ", "z">>
AddPool == {M_feat, M_feat_z, M_fix, M_chore_deps, M_random, M_docs}

MaxAdds == 3

\* Section::new(None, headings)
InitSection ==
    /\ repository = EmptyRepository(None)
    /\ config = Config(All)
    /\ pc = "section"
    /\ self_owner = <<>>
    /\ self_repo = <<>>
    /\ version_tags = <<>>
    /\ section_limit = 0
    /\ section_count = 0
    /\ tag_idx = 0
    /\ revwalk = Revwalk_idle
    /\ sections = <<Section_new(None, config.headings)>>
    /\ links = <<>>
    /\ windows = <<>>
    /\ summary = None
    /\ cc = ConvCommit_default
    /\ bullet = <<>>
    /\ header = Header_default
    /\ documents = <<>>
    /\ next_version = None
    /\ tag_builder = None
    /\ call = NoCall
    /\ added = <<>>
    /\ groups = <<>>
    /\ mapping = None

\* section.add_commit(Some(text), None)
AddCommitCall ==
    /\ pc = "section"
    /\ Len(added) < MaxAdds
    /\ \E text \in AddPool :
          /\ sections' = <<add_commit(sections[1], Some(text), None)>>
          /\ added' = Append(added, text)
    /\ UNCHANGED <<repository, config, pc, self_owner, self_repo, version_tags,
                   section_limit, section_count, tag_idx, revwalk, links, windows,
                   summary, cc, bullet, header, documents, next_version, tag_builder,
                   call, groups, mapping>>

NextSection == AddCommitCall

SpecSection == InitSection /\ [][NextSection]_vars

----------------------------------------------------------------------------
(* The groups of a configuration and their table *)

\* Group::new_with_name_types_and_publish_flag: cc_types is a HashSet
Group_new(name, type_list, publish) ==
    [name |-> name, publish |-> publish, cc_types |-> type_list]

\* GroupMgmt::add_group: the group is inserted under its name
add_group(map, group) ==
    [k \in DOMAIN map \cup {group.name} |-> IF k = group.name THEN group ELSE map[k]]

\* GroupMgmt::remove_group
remove_group(map, key) == [k \in DOMAIN map \ {key} |-> map[k]]

\* GroupMgmt::set_to_publish: the group of that name, if there is one, is published
set_to_publish(map, group_name) ==
    IF group_name \in DOMAIN map
    THEN [map EXCEPT ![group_name].publish = TRUE]
    ELSE map

\* The orders in which a HashMap may yield its values: every order of its keys
Orders(keys) ==
    {order \in [1..Cardinality(keys) -> keys] :
        \A i, j \in 1..Cardinality(keys) : order[i] = order[j] => i = j}

\* The loop over g.cc_types(): BTreeMap::insert of every type of the group, a type
\* already in the table getting the name of this group
InsertTypes(table, group) ==
    [key \in DOMAIN table \cup group.cc_types |->
        IF key \in group.cc_types THEN group.name ELSE table[key]]

\* The table after the first n groups of the iteration
RECURSIVE MappingUpTo(_, _, _)
MappingUpTo(map, order, n) ==
    IF n = 0 THEN <<>>
    ELSE InsertTypes(MappingUpTo(map, order, n - 1), map[order[n]])

\* ChangeLogConfig::groups_mapping, with the order in which self.groups.values()
\* yields the groups
groups_mapping(map, order) == MappingUpTo(map, order, Len(order))

G_Features == <<"F", "e", "a", "t", "u", "r", "e", "s">>
G_Dependencies == <<"D", "e", "p", "e", "n", "d", "e", "n", "c", "i", "e", "s">>

\* Groups of DEFAULT_GROUPS and groups a configuration file may add to them
GroupPool ==
    {Group_new(H_Added, {"feat"}, TRUE),
     Group_new(H_Fixed, {"fix"}, TRUE),
     Group_new(H_Security, {"security", "dependency"}, FALSE),
     Group_new(G_Features, {"feat"}, TRUE),
     Group_new(G_Dependencies, {"dependency"}, FALSE)}

\* The map that add_group builds of a set of groups
GroupsOf(set) ==
    [k \in {g.name : g \in set} |-> CHOOSE g \in set : g.name = k]

\* A configuration whose groups are those of its file
InitGroups ==
    /\ repository = EmptyRepository(None)
    /\ config = Config(All)
    /\ pc = "groups"
    /\ self_owner = <<>>
    /\ self_repo = <<>>
    /\ version_tags = <<>>
    /\ section_limit = 0
    /\ section_count = 0
    /\ tag_idx = 0
    /\ revwalk = Revwalk_idle
    /\ sections = <<>>
    /\ links = <<>>
    /\ windows = <<>>
    /\ summary = None
    /\ cc = ConvCommit_default
    /\ bullet = <<>>
    /\ header = Header_default
    /\ documents = <<>>
    /\ next_version = None
    /\ tag_builder = None
    /\ call = NoCall
    /\ added = <<>>
    /\ groups \in {GroupsOf(set) : set \in SUBSET GroupPool}
    /\ mapping = None

GroupsFrame ==
    UNCHANGED <<repository, config, pc, self_owner, self_repo, version_tags, section_limit,
                section_count, tag_idx, revwalk, sections, links, windows, summary, cc,
                bullet, header, documents, next_version, tag_builder, call, added>>

\* groups.add_group(group)
AddGroup ==
    /\ pc = "groups"
    /\ \E group \in GroupPool :
          /\ groups' = add_group(groups, group)
          /\ groups' # groups
    /\ mapping' = None
    /\ GroupsFrame

\* groups.remove_group(key)
RemoveGroup ==
    /\ pc = "groups"
    /\ \E key \in DOMAIN groups : groups' = remove_group(groups, key)
    /\ mapping' = None
    /\ GroupsFrame

\* groups.set_to_publish(group_name)
SetToPublish ==
    /\ pc = "groups"
    /\ \E group_name \in {g.name : g \in GroupPool} :
          /\ groups' = set_to_publish(groups, group_name)
          /\ groups' # groups
    /\ mapping' = None
    /\ GroupsFrame

\* config.groups_mapping(): the HashMap yields its groups in any order
GroupsMapping ==
    /\ pc = "groups"
    /\ \E order \in Orders(DOMAIN groups) :
          mapping' = Some(groups_mapping(groups, order))
    /\ UNCHANGED groups
    /\ GroupsFrame

NextGroups == AddGroup \/ RemoveGroup \/ SetToPublish \/ GroupsMapping

SpecGroups == InitGroups /\ [][NextGroups]_vars

----------------------------------------------------------------------------
(* The headings built by add_heading *)

HeadingPool == {H_Added, H_Fixed, H_Changed, H_Security, H_Build, H_Miscellaneous}

\* BTreeMap::new(): no heading yet
InitHeadings ==
    /\ repository = EmptyRepository(None)
    /\ config = [Config(All) EXCEPT !.headings = <<>>]
    /\ pc = "headings"
    /\ self_owner = <<>>
    /\ self_repo = <<>>
    /\ version_tags = <<>>
    /\ section_limit = 0
    /\ section_count = 0
    /\ tag_idx = 0
    /\ revwalk = Revwalk_idle
    /\ sections = <<>>
    /\ links = <<>>
    /\ windows = <<>>
    /\ summary = None
    /\ cc = ConvCommit_default
    /\ bullet = <<>>
    /\ header = Header_default
    /\ documents = <<>>
    /\ next_version = None
    /\ tag_builder = None
    /\ call = NoCall
    /\ added = <<>>
    /\ groups = <<>>
    /\ mapping = None

\* headings.add_heading(group)
AddHeading ==
    /\ pc = "headings"
    /\ \E group \in HeadingPool :
          /\ config' = [config EXCEPT !.headings = add_heading(@, group)]
          /\ call' = [op |-> "add_heading", arg |-> Some(group)]
    /\ ConfigFrame

NextHeadings == AddHeading

SpecHeadings == InitHeadings /\ [][NextHeadings]_vars

----------------------------------------------------------------------------
(* Properties of the walk *)

\* The history of a commit: the commit and the histories of its parents
RECURSIVE HistoryOf(_)
HistoryOf(c) == {c} \cup UNION {HistoryOf(p) : p \in repository.parents[c]}

\* The places <<section, group, index>> where a ConvCommit stands in the sections
PlacesOf(commit) ==
    {pl \in UNION {UNION {{<<i, g, k>> : k \in 1..Len(sections[i].commits[g])} :
                             g \in DOMAIN sections[i].commits} : i \in 1..Len(sections)} :
        sections[pl[1]].commits[pl[2]][pl[3]] = commit}

FullWalkDone == pc = "done" /\ config.display_sections.kind = "All"

\* C1: after a full walk under the policy All every commit that has a summary and
\* is reachable from HEAD stands in exactly one group of exactly one section,
\* wherever the release tags are placed on the history (stated for fewer release
\* tags than the section limit can count).
C1_Partition ==
    (FullWalkDone /\ Len(version_tags) < U8Max) =>
        \A c \in HistoryOf(repository.head) :
            repository.summary[c].some =>
                Cardinality(PlacesOf(ConvCommit_new(repository.summary[c], None))) = 1

\* C2: under the policy All with_repository produces len(release_tags) + 1 sections
\* when there is a release tag, and 1 section when there is none.
C2_AllSections ==
    FullWalkDone =>
        Len(sections) = IF version_tags # <<>> THEN Len(version_tags) + 1 ELSE 1

\* C3: under One only the first section is emitted; under Custom(n) n sections are
\* emitted, or all len(release_tags) + 1 when there are fewer, for every n of a u8.
C3_PolicyBound ==
    pc = "done" =>
        /\ config.display_sections.kind = "One" => Len(sections) = 1
        /\ config.display_sections.kind = "Custom" =>
              Len(sections) = Min(config.display_sections.n, Len(version_tags) + 1)

\* The commit a window starts from and the commits it ends before
WindowStart(w) ==
    IF w.setup.kind \in {"NoReleases", "HeadToRelease"} THEN repository.head
    ELSE w.setup.tag.id
WindowEnds(w) ==
    CASE w.setup.kind = "HeadToRelease" -> {w.setup.tag.id}
      [] w.setup.kind = "FromReleaseToRelease" -> {w.setup.next_tag.id}
      [] OTHER -> {}

\* The tag v1.0.0 on the second of three commits in a line, HEAD on the third
ScenarioB ==
    /\ repository.n = 3
    /\ repository.parents = <<{}, {1}, {2}>>
    /\ repository.head = 3
    /\ repository.tags = <<[id |-> 2, name |-> T_v1_0_0]>>

\* C4: the traversal of every window yields exactly the commits reachable from the
\* start of the window and not from its end, each once, whatever was pushed and
\* hidden for the windows before it; with v1.0.0 on C2 of C1 < C2 < C3 the first
\* window yields C3 and the second C2 and C1.
C4_WindowExact ==
    /\ \A i \in 1..Len(windows) :
          /\ {windows[i].oids[k] : k \in 1..Len(windows[i].oids)}
                = HistoryOf(WindowStart(windows[i]))
                    \ UNION {HistoryOf(e) : e \in WindowEnds(windows[i])}
          /\ \A k, l \in 1..Len(windows[i].oids) :
                windows[i].oids[k] = windows[i].oids[l] => k = l
    /\ (ScenarioB /\ FullWalkDone) =>
          /\ Len(windows) = 2
          /\ windows[1].oids = <<3>>
          /\ windows[2].oids = <<2, 1>>

\* Three windows were walked, none of them empty
C4_Witness ==
    /\ pc = "done"
    /\ Len(windows) = 3
    /\ \A i \in 1..3 : windows[i].oids # <<>>
----------------------------------------------------------------------------
(* Properties of the release tags *)

\* SemVer precedence (semver.org, 11): v is below w
SemverBelow(v, w) ==
    \/ v.major < w.major
    \/ v.major = w.major /\ v.minor < w.minor
    \/ v.major = w.major /\ v.minor = w.minor /\ v.patch < w.patch
    \/ /\ v.major = w.major /\ v.minor = w.minor /\ v.patch = w.patch
       /\ v.pre # <<>>
       /\ (w.pre = <<>> \/ IdsCmp(Split(v.pre, "."), Split(w.pre, ".")) < 0)

TagsListed == pc = "version_tags"

\* The versions of the release tags, in their order
ListedVersions == [k \in 1..Len(version_tags) |-> version_tags[k].semver.val]

\* C5 as stated: the list of get_version_tags is strictly descending by SemVer
\* precedence for every multiset of tags that parse to a version, tags that parse
\* to the same version included.
C5_StrictlyDescending ==
    TagsListed =>
        \A i, j \in 1..Len(version_tags) :
            i < j => SemverBelow(ListedVersions[j], ListedVersions[i])

\* C5, amended: the list of get_version_tags is descending by SemVer precedence,
\* never ascending: no tag stands before a tag of higher precedence, and tags of
\* the same precedence stand side by side; v1.0.0, v2.0.0, v1.5.0-alpha gives
\* 2.0.0, 1.5.0-alpha, 1.0.0.
C5_Descending ==
    TagsListed =>
        /\ \A i, j \in 1..Len(version_tags) :
              i < j => ~SemverBelow(ListedVersions[i], ListedVersions[j])
        /\ repository.tags = TagRepository(<<T_v1_0_0, T_v2_0_0, T_v1_5_0_alpha>>).tags =>
              /\ Len(version_tags) = 3
              /\ Version_to_string(ListedVersions[1]) = <<"2", ".", "0", ".", "0">>
              /\ Version_to_string(ListedVersions[2]) = <<"1", ".", "5", ".", "0", "-", "a", "l", "p", "h", "a">>
              /\ Version_to_string(ListedVersions[3]) = <<"1", ".", "0", ".", "0">>

\* Three release tags are listed, two of them of the same precedence
C5_Witness ==
    /\ TagsListed
    /\ Len(version_tags) = 3
    /\ \E i, j \in 1..3 :
          /\ i < j
          /\ ~SemverBelow(ListedVersions[i], ListedVersions[j])
          /\ ~SemverBelow(ListedVersions[j], ListedVersions[i])
    /\ \E i, j \in 1..3 : SemverBelow(ListedVersions[j], ListedVersions[i])

\* The release tag listed for a name, as a set: empty when the name has no version
ListedFor(name) ==
    {version_tags[k].semver.val : k \in {k \in 1..Len(version_tags) :
                                           version_tags[k].name = name}}

\* C6: under Prefix(p) a tag named refs/tags/{p}{major}.{minor}.{patch}, whatever
\* the number of digits of the components, gets exactly that version, and a tag
\* whose captured prefix is not p gets no version.
C6_PrefixVersion ==
    TagsListed =>
        \A i \in 1..Len(repository.tags) :
            /\ \A x \in ComponentPool \X ComponentPool \X ComponentPool :
                  repository.tags[i].name
                        = TagName(config.release_pattern.p, x[1], x[2], x[3], <<>>)
                  => ListedFor(repository.tags[i].name)
                        = {[major |-> x[1], minor |-> x[2], patch |-> x[3],
                            pre |-> <<>>, build |-> <<>>]}
            /\ (/\ PREFIX_captures(repository.tags[i].name).some
                /\ PREFIX_captures(repository.tags[i].name).val.prefix
                      # config.release_pattern.p)
                  => ListedFor(repository.tags[i].name) = {}

----------------------------------------------------------------------------
(* Properties of the classifier and of the groups *)

Classified == pc \in {"commits_markdown", "bullet"}

\* C7: a commit of kind chore is put in the Security group when its scope is deps
\* and in the Chore group for every other scope and for no scope.
C7_ChoreDeps ==
    (Classified /\ cc.kind = Some(K_chore)) =>
        IF cc.scope = Some(<<"d", "e", "p", "s">>)
        THEN sections[1].security_commits = <<cc>> /\ sections[1].chore_commits = <<>>
        ELSE sections[1].chore_commits = <<cc>> /\ sections[1].security_commits = <<>>

\* The kinds of ChangeLogClass::new with the names of their classes
GroupTable ==
    {<<K_feat, "Added">>, <<K_fix, "Fixed">>, <<K_refactor, "Changed">>,
     <<K_security, "Security Changes">>, <<K_dependency, "Security Changes">>,
     <<K_build, "Build Changes">>, <<K_doc, "Documentation Changes">>,
     <<K_docs, "Documentation Changes">>, <<K_chore, "Chore Changes">>,
     <<K_ci, "CI Changes">>, <<K_test, "Test Changes">>,
     <<K_deprecated, "Deprecated">>, <<K_removed, "Removed">>,
     <<K_misc, "Miscellaneous">>}

\* The group the table gives a commit
GroupOf(commit) ==
    IF ~commit.kind.some THEN "Unknown"
    ELSE IF \E row \in GroupTable : row[1] = to_lowercase(commit.kind.val)
         THEN (CHOOSE row \in GroupTable : row[1] = to_lowercase(commit.kind.val))[2]
         ELSE "Unknown"

Shape(s, e, t, c, b) ==
    /\ e = 0 \/ (e >= 2 /\ s[e] \in {" ", "\t", "\n"} /\ \A i \in 1..(e - 1) : s[i] # "\n")
    /\ t >= e + 1 /\ t <= Len(s) /\ \A i \in (e + 1)..t : s[i] \in LowerLetters
    /\ c = 0 \/ (/\ c >= t + 3 /\ c <= Len(s) /\ s[t + 1] = "(" /\ s[c] = ")"
                 /\ \A i \in (t + 2)..(c - 1) : s[i] # "\n")
    /\ \E r \in {IF c = 0 THEN t + 1 ELSE c + 1} :
          /\ b => (r <= Len(s) /\ s[r] = "!")
          /\ \E d \in {IF b THEN r + 1 ELSE r} :
                /\ d + 1 <= Len(s) /\ s[d] = ":" /\ s[d + 1] = " "
                /\ \A i \in (d + 2)..Len(s) : s[i] # "\n"

Shapes(s) ==
    {x \in (0..Len(s)) \X (1..Len(s)) \X (0..Len(s)) \X BOOLEAN :
        Shape(s, x[1], x[2], x[3], x[4])}

\* The record for a shape of s
Shaped(s, x) ==
    [title |-> SubSeq(s, (IF x[3] = 0 THEN x[2] ELSE x[3]) + (IF x[4] THEN 4 ELSE 3),
                      Len(s)),
     emoji |-> IF x[1] = 0 THEN None ELSE Some(SubSeq(s, 1, x[1])),
     kind |-> Some(SubSeq(s, x[1] + 1, x[2])),
     scope |-> IF x[3] = 0 THEN None ELSE Some(SubSeq(s, x[2] + 2, x[3] - 1)),
     breaking |-> x[4],
     body |-> <<>>]

\* C9: ConvCommit::new gives a record for every summary. For a conventional
\* summary the fields are the parts of the summary ("feat(core)!: add x": kind
\* feat, scope core, breaking, title "add x"); for any other summary kind, scope
\* and emoji are absent, breaking is false and the title is the summary; for no
\* summary the record is the default.
C9_ConvCommitNew ==
    Classified =>
        /\ ~summary.some => cc = ConvCommit_default
        /\ (summary.some /\ Shapes(summary.val) # {}) =>
              \E x \in Shapes(summary.val) : cc = Shaped(summary.val, x)
        /\ (summary.some /\ Shapes(summary.val) = {}) =>
              cc = [title |-> summary.val, emoji |-> None, kind |-> None,
                    scope |-> None, breaking |-> FALSE, body |-> <<>>]
        /\ summary = Some(M_example) =>
              /\ cc.kind = Some(K_feat)
              /\ cc.scope = Some(<<"c", "o", "r", "e">>)
              /\ cc.breaking
              /\ cc.title = <<"a", "d", "d", " ", "x">>

\* The summary of the example was classified
C9_Witness ==
    /\ Classified
    /\ summary = Some(M_example)
    /\ cc.kind = Some(K_feat)

\* C10: the bullet of a commit is its summary: title_as_string(ConvCommit::new(s))
\* is s for every summary s, conventional or not.
C10_BulletIsSummary ==
    (pc = "bullet" /\ summary.some) => bullet = summary.val
----------------------------------------------------------------------------
(* Properties of the links *)

\* The text of a version of the scenarios: major.minor.patch
Dotted(v) == NumStr(v.major) \o <<".">> \o NumStr(v.minor) \o <<".">> \o NumStr(v.patch)

\* https://github.com/{owner}/{repo} for the owner and the repo of the builder
RepoUrl == S_https_github \o self_owner \o <<"/">> \o self_repo

\* C11: the link of a window follows from the kind of the window: NoReleases gives
\* the anchor "Unreleased" and .../commits/main/; HeadToRelease(tag) gives
\* "Unreleased" and .../compare/v{tag}...HEAD; FromReleaseToRelease(tag, next_older)
\* gives the version of tag and .../compare/v{next_older}...v{tag}; ReleaseToStart(tag)
\* gives the version of tag and .../releases/tag/v{tag}.
C11_SetLink ==
    \A i \in 1..Len(windows) :
        /\ i <= Len(links)
        /\ windows[i].setup.kind = "NoReleases" =>
              /\ links[i].anchor = S_Unreleased
              /\ links[i].url = RepoUrl \o S_commits_main
        /\ windows[i].setup.kind = "HeadToRelease" =>
              /\ links[i].anchor = S_Unreleased
              /\ links[i].url = RepoUrl \o S_compare_v
                                  \o Dotted(windows[i].setup.tag.semver.val) \o S_dots_HEAD
        /\ windows[i].setup.kind = "FromReleaseToRelease" =>
              /\ links[i].anchor = Dotted(windows[i].setup.tag.semver.val)
              /\ links[i].url = RepoUrl \o S_compare_v
                                  \o Dotted(windows[i].setup.next_tag.semver.val)
                                  \o S_dots_v \o Dotted(windows[i].setup.tag.semver.val)
        /\ windows[i].setup.kind = "ReleaseToStart" =>
              /\ links[i].anchor = Dotted(windows[i].setup.tag.semver.val)
              /\ links[i].url = RepoUrl \o S_releases_tag_v
                                  \o Dotted(windows[i].setup.tag.semver.val)

\* The links of three windows were set: HeadToRelease, FromReleaseToRelease and
\* ReleaseToStart
C11_Witness ==
    /\ pc = "done"
    /\ Len(links) = 3
    /\ windows[2].setup.kind = "FromReleaseToRelease"
    /\ windows[3].setup.kind = "ReleaseToStart"
    /\ links[2].anchor # links[3].anchor

\* C12: the builder holds one link for each section, in the order of the sections:
\* in every state of with_repository, the states after a walk that failed
\* included, there are as many links as sections, and the link at a place has the
\* anchor of the section at that place.
C12_LinkPerSection ==
    /\ Len(links) = Len(sections)
    /\ \A i \in 1..Len(sections) :
          i <= Len(links) =>
              links[i].anchor = IF sections[i].tag.some
                                THEN Dotted(sections[i].tag.val.semver.val)
                                ELSE S_Unreleased

\* with_repository failed in the walk of a release, after the first section
C12_Witness ==
    /\ pc = "err"
    /\ Len(sections) >= 1
    /\ Len(links) >= 1

\* C13: a missing remote, or a remote that is not of the GitHub pattern, is
\* recoverable: with_repository does not fail on it and goes on to the sections,
\* the owner and the repo stay empty and no link is made.
C13_RemoteRecoverable ==
    (~get_remote_details(repository).ok /\ pc # "with_repository") =>
        /\ pc \in {"first_section", "releases", "done"}
        /\ self_owner = <<>> /\ self_repo = <<>>
        /\ links = <<>>
----------------------------------------------------------------------------
(* Properties of the remote *)

\* The url is host, owner, "/", repo, ".git" with the "/" at k
UrlParts(url, host, k) ==
    [owner |-> SubSeq(url, Len(host) + 1, k - 1),
     repo |-> SubSeq(url, k + 1, Len(url) - Len(S_dot_git))]

\* The owners and the repos of the pattern as it is described: an owner of 1 to 39
\* alphanumerics or hyphens, no hyphen first or last; a repo of one or more
\* alphanumerics, underscores or hyphens
OwnerDescribed(o) ==
    /\ Len(o) \in 1..MaxOwner
    /\ \A i \in 1..Len(o) : o[i] \in AlnumChars \cup {"-"}
    /\ o[1] # "-" /\ o[Len(o)] # "-"
RepoDescribed(r) ==
    /\ Len(r) >= 1
    /\ \A i \in 1..Len(r) : r[i] \in AlnumChars \cup {"_", "-"}

\* The ways to read a url as one of the two described forms
Described(url) ==
    {x \in {S_https_github, S_git_at_github_com} \X (1..Len(url)) :
        /\ StartsWith(url, x[1])
        /\ x[2] > Len(x[1]) /\ x[2] <= Len(url) - Len(S_dot_git)
        /\ url[x[2]] = "/"
        /\ SubSeq(url, Len(url) - Len(S_dot_git) + 1, Len(url)) = S_dot_git
        /\ OwnerDescribed(UrlParts(url, x[1], x[2]).owner)
        /\ RepoDescribed(UrlParts(url, x[1], x[2]).repo)}

RemoteRead == pc \in {"remote_details", "err"} /\ repository.remote.some

\* C14: the remote pattern accepts exactly https://github.com/{owner}/{repo}.git and
\* git@github.com:{owner}/{repo}.git, with an owner of 1 to 39 alphanumerics or
\* hyphens (no hyphen first or last) and a repo of one or more alphanumerics,
\* underscores or hyphens, and captures the owner and the repo; other hosts and a
\* missing .git are rejected.
C14_RemotePattern ==
    RemoteRead =>
        /\ (pc = "remote_details") <=> (Described(repository.remote.val) # {})
        /\ pc = "remote_details" =>
              \A x \in Described(repository.remote.val) :
                  /\ self_owner = UrlParts(repository.remote.val, x[1], x[2]).owner
                  /\ self_repo = UrlParts(repository.remote.val, x[1], x[2]).repo
----------------------------------------------------------------------------
(* Properties of the rendering *)

\* The first n strings of a list, one after another
RECURSIVE Joined(_, _)
Joined(strs, n) == IF n = 0 THEN <<>> ELSE Joined(strs, n - 1) \o strs[n]

Rendered == pc = "rendered"

SectionStrings == [i \in 1..Len(sections) |-> Section_to_string(sections[i])]
LinkStrings == [i \in 1..Len(links) |-> Link_to_string(links[i])]

\* C15: the document is the header block, then the markdown of every section in the
\* stored order, then the links in the stored order; none is moved, repeated or
\* left out.
C15_DocumentOrder ==
    Rendered =>
        \A d \in 1..Len(documents) :
            documents[d] = Header_to_string(header) \o <<"\n">>
                             \o Joined(SectionStrings, Len(sections))
                             \o Joined(LinkStrings, Len(links))
                             \o <<"\n">>

\* A ChangeLog of three sections and three links was rendered, the sections with
\* commits under a heading
C15_Witness ==
    /\ Rendered
    /\ Len(sections) = 3
    /\ Len(links) = 3
    /\ \E i \in 1..3 : SectionBlocks(sections[i]) # <<>>

\* The commits of the group that a heading names (the groups of DEFAULT_GROUPS)
Bucket(section, heading) ==
    CASE heading = H_Added -> section.added_commits
      [] heading = H_Fixed -> section.fixed_commits
      [] heading = H_Changed -> section.changed_commits
      [] heading = H_Security -> section.security_commits
      [] heading = H_Build -> section.build_commits
      [] heading = H_Documentation -> section.documentation_commits
      [] heading = H_Chore -> section.chore_commits
      [] heading = H_Continuous_Integration -> section.ci_commits
      [] heading = H_Testing -> section.test_commits
      [] heading = H_Deprecated -> section.deprecated_commits
      [] heading = H_Removed -> section.removed_commits
      [] heading = H_Miscellaneous -> section.misc_commits
      [] OTHER -> <<>>

\* The block of a heading: "### heading", a bullet for each commit of its group
HeadingBlock(heading, commits) ==
    IF commits = <<>> THEN <<>>
    ELSE <<"#", "#", "#", " ">> \o heading \o <<"\n", "\n">>
            \o Joined([i \in 1..Len(commits) |-> BulletLine(commits[i])], Len(commits))
            \o <<"\n">>

\* The blocks of the configured headings up to the key k, in the order of the keys
RECURSIVE BlocksUpTo(_, _)
BlocksUpTo(section, k) ==
    IF k < 0 THEN <<>>
    ELSE BlocksUpTo(section, k - 1)
            \o (IF k \in DOMAIN section.headings
                THEN HeadingBlock(section.headings[k], Bucket(section, section.headings[k]))
                ELSE <<>>)

ExpectedSection(section) ==
    <<"\n">> \o SectionHeader(section) \o <<"\n", "\n">>
        \o BlocksUpTo(section, Cardinality(DOMAIN section.headings))
        \o <<"\n">>

\* C16: a section renders one "### heading" block for each configured heading with
\* a commit in its group, in the order of the heading table, each block with the
\* commits of that group under the name of the group, once; no other heading is
\* rendered.
C16_HeadingBlocks ==
    Rendered =>
        \A i \in 1..Len(sections) :
            Section_to_string(sections[i]) = ExpectedSection(sections[i])

\* No configured heading of the section has a commit
NothingToShow(section) ==
    \A k \in DOMAIN section.headings : Bucket(section, section.headings[k]) = <<>>

\* C17: a section with no commit under any configured heading renders, the summary
\* flag being off, as the empty string.
C17_EmptySection ==
    Rendered =>
        \A i \in 1..Len(sections) :
            NothingToShow(sections[i]) => Section_to_string(sections[i]) = <<>>

Contents(section) ==
    [f \in ClassLists \cup {"commits", "headings"} |-> section[f]]

\* C19: update_unreleased_to_next_version changes the first section alone: with
\* Some(version) and a section it tags sections[0] with that version and leaves the
\* other sections, the commits of every section, the links and the header as they
\* are; with None, or with no section, the builder is left as it is.
C19_UpdateFrame ==
    [][(pc # "updated" /\ pc' = "updated") =>
          /\ links' = links
          /\ header' = header
          /\ Len(sections') = Len(sections)
          /\ \A i \in 2..Len(sections) : sections'[i] = sections[i]
          /\ (sections # <<>> /\ next_version'.some) =>
                /\ sections'[1].tag.some
                /\ sections'[1].tag.val.name = next_version'.val
                /\ sections'[1].tag.val.semver = Version_parse(next_version'.val)
                /\ Contents(sections'[1]) = Contents(sections[1])
          /\ (sections = <<>> \/ ~next_version'.some) => sections' = sections]_vars

\* The first of three sections was tagged 1.2.0
C19_Witness ==
    /\ pc = "updated"
    /\ next_version = Some(V_1_2_0)
    /\ Len(sections) = 3
    /\ sections[1].tag.some
    /\ sections[2].tag.some
    /\ sections[1].tag.val.semver # sections[2].tag.val.semver
----------------------------------------------------------------------------
(* Properties of the PackagePrefix pattern *)

PackagePattern == config.release_pattern.kind = "PackagePrefix"

\* The captures of a name have the prefix p and the package
Captured(name, p, package) ==
    /\ PACKAGE_PREFIX_captures(name).some
    /\ PACKAGE_PREFIX_captures(name).val.prefix = p
    /\ PACKAGE_PREFIX_captures(name).val.package = package

----------------------------------------------------------------------------
(* Properties of the configuration *)

\* C21: set_display_sections(Some(1)) sets the policy to One, Some(n) with n > 1 sets
\* it to Custom(n), and None leaves the policy as it is; the rest of the
\* configuration is left as it is by each of them.
C21_SetDisplaySections ==
    [][call'.op = "set_display_sections" =>
          /\ config'.headings = config.headings
          /\ config'.release_pattern = config.release_pattern
          /\ call'.arg = Some(1) => config'.display_sections = One
          /\ (call'.arg.some /\ call'.arg.val > 1) =>
                config'.display_sections = Custom(call'.arg.val)
          /\ ~call'.arg.some => config' = config]_vars

\* set_display_sections(None) was called on a configuration of other headings than
\* the default ones that an earlier call had set to Custom(5)
C21_Witness ==
    /\ call = [op |-> "set_display_sections", arg |-> None]
    /\ config.display_sections = Custom(MaxReleases)
    /\ config.headings # DefaultHeadings
----------------------------------------------------------------------------
(* Properties of the order of the windows *)

\* The window expected at the place k of a run over the release tags, newest first
ExpectedWindow(tags, k) ==
    IF k = 1
    THEN (IF tags = <<>> THEN [kind |-> "NoReleases"]
          ELSE [kind |-> "HeadToRelease", tag |-> tags[1]])
    ELSE IF k <= Len(tags)
    THEN [kind |-> "FromReleaseToRelease", tag |-> tags[k - 1], next_tag |-> tags[k]]
    ELSE [kind |-> "ReleaseToStart", tag |-> tags[k - 1]]

WindowsInOrder ==
    /\ Len(windows) <= Len(version_tags) + 1
    /\ \A k \in 1..Len(windows) : windows[k].setup = ExpectedWindow(version_tags, k)
    /\ Len(sections) = Len(windows)
    /\ \A k \in 1..Len(sections) :
          sections[k].tag = IF k = 1 THEN None ELSE Some(version_tags[k - 1])

\* C22: the windows of a run are issued in a fixed order: HeadToRelease(newest
\* release tag) first, or NoReleases alone; then, the release tags taken newest to
\* oldest, FromReleaseToRelease(tag, next older tag) for each pair of neighbours and
\* ReleaseToStart(tag) for the oldest alone; a window once issued stays at its place,
\* and the sections are pushed in the order of their windows.
C22_WindowOrder ==
    /\ []WindowsInOrder
    /\ [][\/ windows' = windows
          \/ /\ Len(windows') = Len(windows) + 1
             /\ SubSeq(windows', 1, Len(windows)) = windows
             /\ SubSeq(sections', 1, Len(sections)) = sections]_vars

\* A run over two release tags is done: three windows
C22_Witness ==
    /\ pc = "done"
    /\ Len(version_tags) = 2
    /\ Len(windows) = 3
    /\ windows[1].setup.kind = "HeadToRelease"
    /\ windows[2].setup.kind = "FromReleaseToRelease"
    /\ windows[3].setup.kind = "ReleaseToStart"
----------------------------------------------------------------------------
(* Properties of the tags of the windows *)

\* The tags that bound a window
WindowTags(setup) ==
    CASE setup.kind = "NoReleases" -> {}
      [] setup.kind = "FromReleaseToRelease" -> {setup.tag, setup.next_tag}
      [] OTHER -> {setup.tag}

\* The name has a version: PREFIX captures the prefix p and a text that
\* Version::parse accepts
Parseable(name, p) ==
    /\ PREFIX_captures(name).some
    /\ PREFIX_captures(name).val.prefix = p
    /\ Version_parse(PREFIX_captures(name).val.semver).some

\* C23: only release tags bound windows: every tag of a HeadToRelease,
\* FromReleaseToRelease or ReleaseToStart window has a parsed version, so a tag
\* whose name has no version that parses starts and ends no window, and the
\* version().unwrap() of set_link finds a version.
C23_ReleaseTagsOnly ==
    \A k \in 1..Len(windows) :
        \A t \in WindowTags(windows[k].setup) :
            /\ t.semver.some
            /\ Parseable(t.name, config.release_pattern.p)
            /\ \E i \in 1..Len(repository.tags) : repository.tags[i].name = t.name

\* A run is done over a repository with two release tags and a tag whose name has
\* no version that parses
C23_Witness ==
    /\ pc = "done"
    /\ Len(windows) = 3
    /\ Len(links) = 3
    /\ \E i \in 1..Len(repository.tags) :
          /\ PREFIX_captures(repository.tags[i].name).some
          /\ ~Parseable(repository.tags[i].name, config.release_pattern.p)
----------------------------------------------------------------------------
(* Properties of the groups of a section *)

\* The commits given to add_commit, in turn
AddedCommits == [i \in 1..Len(added) |-> ConvCommit_new(Some(added[i]), None)]

\* The places <<group, index>> of the group map of a section
BucketPlaces(section) ==
    UNION {{<<g, k>> : k \in 1..Len(section.commits[g])} : g \in DOMAIN section.commits}

\* The places <<list, index>> of the per-class lists of a section
ListPlaces(section) ==
    UNION {{<<f, k>> : k \in 1..Len(section[f])} : f \in ClassLists}

\* How often a commit was added
TimesAdded(commit) == Cardinality({i \in 1..Len(added) : AddedCommits[i] = commit})

\* b is s with some of its items left out
RECURSIVE IsSubsequence(_, _)
IsSubsequence(b, s) ==
    IF b = <<>> THEN TRUE
    ELSE IF s = <<>> THEN FALSE
    ELSE IF Head(b) = Head(s) THEN IsSubsequence(Tail(b), Tail(s))
    ELSE IsSubsequence(b, Tail(s))

\* C24: after any sequence of add_commit calls on a section each added commit is in
\* exactly one bucket of the group map and in exactly one of the per-class lists, the
\* buckets and the lists hold as many commits as there were calls, and the commits
\* of a bucket are in the order of their calls.
C24_OneGroup ==
    pc = "section" =>
        /\ Cardinality(BucketPlaces(sections[1])) = Len(added)
        /\ Cardinality(ListPlaces(sections[1])) = Len(added)
        /\ \A i \in 1..Len(added) :
              /\ Cardinality({pl \in BucketPlaces(sections[1]) :
                                 sections[1].commits[pl[1]][pl[2]] = AddedCommits[i]})
                    = TimesAdded(AddedCommits[i])
              /\ Cardinality({pl \in ListPlaces(sections[1]) :
                                 sections[1][pl[1]][pl[2]] = AddedCommits[i]})
                    = TimesAdded(AddedCommits[i])
        /\ \A g \in DOMAIN sections[1].commits :
              IsSubsequence(sections[1].commits[g], AddedCommits)
        /\ \A f \in ClassLists : IsSubsequence(sections[1][f], AddedCommits)

\* Three commits were added: two of one group, the later of them first in the
\* alphabet, and one of another group
C24_Witness ==
    /\ pc = "section"
    /\ added = <<M_feat_z, M_fix, M_feat>>
    /\ \E g \in DOMAIN sections[1].commits : Len(sections[1].commits[g]) = 2
----------------------------------------------------------------------------
(* Properties of the headings and their links *)

\* The label in the heading of a section: the version of its tag, or Unreleased
HeadingLabel(section) ==
    IF section.tag.some /\ section.tag.val.semver.some
    THEN Version_to_string(section.tag.val.semver.val)
    ELSE S_Unreleased

\* C25: every section heading has its reference link: after with_repository, and
\* after update_unreleased_to_next_version if it is called, the anchor of the i-th
\* link is the label in the heading of the i-th section.
C25_AnchorIsLabel ==
    pc \in {"done", "updated", "rendered"} =>
        /\ Len(links) = Len(sections)
        /\ \A i \in 1..Len(sections) : links[i].anchor = HeadingLabel(sections[i])
----------------------------------------------------------------------------
(* Properties of the headings map *)

\* The names of a headings map
Names(headings) == {headings[k] : k \in DOMAIN headings}

\* C26: adding a heading never loses one: for any headings map, one loaded from a
\* file with other keys than 0 .. len - 1 included, every name present before
\* publish_group(g) is present after it, and so is g unless the map held 255
\* entries.
C26_NoHeadingLost ==
    [][call'.op = "publish_group" =>
          /\ Names(config.headings) \subseteq Names(config'.headings)
          /\ Cardinality(DOMAIN config.headings) # U8Max =>
                call'.arg.val \in Names(config'.headings)]_vars
----------------------------------------------------------------------------
(* Properties of the section limit *)

\* The limit for t release tags with no conversion to u8
LimitOf(display_sections, t) ==
    CASE display_sections.kind = "All" -> IF t + 1 < U8Max THEN t + 1 ELSE U8Max
      [] display_sections.kind = "One" -> 1
      [] display_sections.kind = "Custom" ->
            IF t + 1 < display_sections.n THEN t + 1 ELSE display_sections.n

\* C27: the section limit is computed without wrap-around: for every number t of
\* release tags, 255 and more included, the limit of with_repository is
\* min(t + 1, 255) under All and min(t + 1, n) under Custom(n).
C27_NoWrapAround ==
    pc \in {"first_section", "releases", "done"} =>
        section_limit = LimitOf(config.display_sections, Len(version_tags))

----------------------------------------------------------------------------
(* Properties of the table of the groups *)

\* C28: groups_mapping is a function of the configuration alone: the table it
\* returned is the table of every order in which the groups can be iterated, also
\* when two groups list the same commit type.
C28_Deterministic ==
    mapping.some =>
        \A order \in Orders(DOMAIN groups) : groups_mapping(groups, order) = mapping.val

----------------------------------------------------------------------------
(* Properties of the headings built from none *)

\* The keys are 0 .. len - 1, "Miscellaneous" has the greatest key if it is there,
\* and no name is there twice
WellFormed(headings) ==
    /\ DOMAIN headings = 0..(Cardinality(DOMAIN headings) - 1)
    /\ HasHeading(headings, H_Miscellaneous) =>
          headings[Cardinality(DOMAIN headings) - 1] = H_Miscellaneous
    /\ \A i, j \in DOMAIN headings : headings[i] = headings[j] => i = j

\* C29: after any add_heading calls on an empty map the keys are 0 .. len - 1,
\* "Miscellaneous", if present, is the value of the greatest key and no name is
\* there twice; adding a name that is present leaves the map as it is.
C29_MiscellaneousLast ==
    /\ [](pc = "headings" => WellFormed(config.headings))
    /\ [][(call'.op = "add_heading" /\ HasHeading(config.headings, call'.arg.val)) =>
             config'.headings = config.headings]_vars

\* "Fixed" was added and stands between "Added" and "Miscellaneous"
C29_Witness ==
    /\ pc = "headings"
    /\ call = [op |-> "add_heading", arg |-> Some(H_Fixed)]
    /\ config.headings = (0 :> H_Added @@ 1 :> H_Fixed @@ 2 :> H_Miscellaneous)

----------------------------------------------------------------------------
(* Properties of the "Miscellaneous" heading *)

\* The entries of the map but those of "Miscellaneous"
WithoutMiscellaneous(headings) ==
    [k \in {i \in DOMAIN headings : headings[i] # H_Miscellaneous} |-> headings[k]]

\* C30: remove_miscellaneous takes the "Miscellaneous" entry from the map and no
\* other, and on a map without "Miscellaneous" add_miscellaneous followed by
\* remove_miscellaneous gives the keys and values there were.
C30_RoundTrip ==
    [][/\ call'.op = "remove_miscellaneous" =>
             config'.headings = WithoutMiscellaneous(config.headings)
       /\ (call'.op = "add_miscellaneous" /\ ~HasHeading(config.headings, H_Miscellaneous)) =>
             remove_miscellaneous(config'.headings) = config.headings]_vars
====
